---- MODULE Spec2Model ----
(***************************************************************************)
(* Vulnerability-list data model and set algebra of                        *)
(* test/test_utils/security.py: ScanVulnerabilityList and its two          *)
(* subclasses (ECR basic scan, ECR enhanced scan).                         *)
(*                                                                         *)
(* A Python dict is modelled as a sequence of entries [key, vulns] in      *)
(* insertion order with unique keys; a Python list as a sequence; a        *)
(* vulnerability dict as a TLA+ record.  Objects live in a heap indexed by *)
(* object id so that aliasing (an operation returning `self`) is visible.  *)
(* CVSS scores are kept in tenths (95 stands for 9.5).                     *)
(***************************************************************************)
EXTENDS Integers, Sequences, FiniteSets, TLC

\* ------------------------------------------------------------------ bounds
MaxCalls == 1   \* calls made on the lists after they were first filled
MaxScore == 100 \* the largest CVSS base score, in tenths

\* ------------------------------------------------------- generic sequences
Range(s) == {s[i] : i \in 1..Len(s)}

RECURSIVE FilterSeq(_, _)
FilterSeq(s, keep) ==
  IF s = <<>> THEN <<>>
  ELSE IF Head(s) \in keep THEN <<Head(s)>> \o FilterSeq(Tail(s), keep)
       ELSE FilterSeq(Tail(s), keep)

\* stable insertion sort of s by the integer key rank[x]
RECURSIVE InsertByRank(_, _, _)
InsertByRank(x, s, rank) ==
  IF s = <<>> THEN <<x>>
  ELSE IF rank[Head(s)] <= rank[x] THEN <<Head(s)>> \o InsertByRank(x, Tail(s), rank)
       ELSE <<x>> \o s

RECURSIVE SortByRank(_, _)
SortByRank(s, rank) ==
  IF s = <<>> THEN <<>>
  ELSE LET n == Len(s)
       IN  InsertByRank(s[n], SortByRank(SubSeq(s, 1, n - 1), rank), rank)

\* ------------------------------------------------------------ CVESeverity
CVESeverity ==
  [s \in {"UNDEFINED", "INFORMATIONAL", "LOW", "MEDIUM", "HIGH", "CRITICAL"} |->
     CASE s = "UNDEFINED" -> 0
       [] s = "INFORMATIONAL" -> 1
       [] s = "LOW" -> 2
       [] s = "MEDIUM" -> 3
       [] s = "HIGH" -> 4
       [] s = "CRITICAL" -> 5]

\* thresholds the callers use (get_minimum_sev_threshold_level, the default)
Thresholds == {CVESeverity["MEDIUM"], CVESeverity["HIGH"]}

\* the order of strings Python's sort uses on the names and keys of the model
StrRank ==
  [s \in {"CVE-1", "CVE-2", "CVE-3", "pkgA", "pkgB"} |->
     CASE s = "CVE-1" -> 1
       [] s = "CVE-2" -> 2
       [] s = "CVE-3" -> 3
       [] s = "pkgA" -> 4
       [] s = "pkgB" -> 5]

\* ------------------------------------------------- basic-scan vulnerabilities
\* One finding of an ECR basic scan; the allowlist format is the same shape.
BasicVuln(name, severity, pkg, version, extra) ==
  [name |-> name,
   severity |-> severity,
   attributes |->
     <<[key |-> "package_version", value |-> version],
       [key |-> "package_name", value |-> pkg]>>
     \o (IF extra THEN <<[key |-> "CVSS2_VECTOR", value |-> "AV:N"]>> ELSE <<>>)]

b1 == BasicVuln("CVE-1", "HIGH", "pkgA", "1.0", FALSE)
b1v == BasicVuln("CVE-1", "HIGH", "pkgA", "2.0", FALSE)
b1x == BasicVuln("CVE-1", "HIGH", "pkgA", "1.0", TRUE)
b2 == BasicVuln("CVE-2", "MEDIUM", "pkgA", "1.0", FALSE)
b3 == BasicVuln("CVE-1", "HIGH", "pkgB", "1.0", FALSE)

\* the basic-scan records of the model, in the order uniquify ranks them
BasicUniverse == <<b1, b1v, b1x, b2, b3>>

\* ---------------------------------------------- enhanced-scan raw findings
Cvss(version, baseScore) == [version |-> version, baseScore |-> baseScore]

RawPackage(name, version) ==
  [name |-> name, version |-> version, filePath |-> "None",
   packageManager |-> "OS", release |-> "1"]

RawFinding(id, cvss, packages, severity) ==
  [description |-> "d",
   packageVulnerabilityDetails |->
     [vulnerabilityId |-> id, sourceUrl |-> "u", source |-> "NVD",
      cvss |-> cvss, vulnerablePackages |-> packages],
   remediation |-> "r",
   severity |-> severity,
   status |-> "ACTIVE",
   title |-> id]

f1 == RawFinding("CVE-1", <<Cvss("2.0", 50), Cvss("3.1", 95)>>, <<RawPackage("pkgA", "1.0")>>, "CRITICAL")
f1v == RawFinding("CVE-1", <<Cvss("2.0", 50), Cvss("3.1", 95)>>, <<RawPackage("pkgA", "2.0")>>, "CRITICAL")
f2 == RawFinding("CVE-2", <<Cvss("3.1", 40)>>, <<RawPackage("pkgA", "1.0"), RawPackage("pkgB", "1.0")>>, "MEDIUM")
f3 == RawFinding("CVE-3", <<Cvss("3.0", 98)>>, <<RawPackage("pkgB", "1.0")>>, "HIGH")
f4 == RawFinding("CVE-3", <<Cvss("3.1", 70)>>, <<RawPackage("pkgB", "1.0")>>, "HIGH")
\* two v3.1 entries; a severity string outside CVESeverity; no v3.1 entry;
\* two versions of one package
f5 == RawFinding("CVE-2", <<Cvss("3.1", 40), Cvss("3.1", 95), Cvss("3.0", 98)>>, <<RawPackage("pkgB", "1.0")>>, "LOW")
f6 == RawFinding("CVE-3", <<Cvss("3.1", 95)>>, <<RawPackage("pkgA", "1.0")>>, "UNTRIAGED")
f7 == RawFinding("CVE-1", <<Cvss("3.0", 98), Cvss("2.0", 100)>>, <<RawPackage("pkgA", "1.0")>>, "CRITICAL")
f8 == RawFinding("CVE-2", <<Cvss("3.1", 95)>>, <<RawPackage("pkgA", "1.0"), RawPackage("pkgA", "2.0")>>, "HIGH")

\* VulnerablePackageDetails.__init__
VulnerablePackageDetails(vulnerable_package) ==
  [file_path |-> vulnerable_package.filePath,
   name |-> vulnerable_package.name,
   package_manager |-> vulnerable_package.packageManager,
   version |-> vulnerable_package.version,
   release |-> vulnerable_package.release]

\* AllowListFormatVulnerability.get_cvss_score: the first entry of the version, else 0.0
RECURSIVE get_cvss_score_from(_, _)
get_cvss_score_from(cvss, score_version) ==
  IF cvss = <<>> THEN 0
  ELSE IF Head(cvss).version = score_version THEN Head(cvss).baseScore
       ELSE get_cvss_score_from(Tail(cvss), score_version)

\* get_cvss_score falling back to the v3.0 entry when the version is absent
get_cvss_score_or_v30(packageVulnerabilityDetails, score_version) ==
  IF \E i \in 1..Len(packageVulnerabilityDetails.cvss) :
       packageVulnerabilityDetails.cvss[i].version = score_version
  THEN get_cvss_score_from(packageVulnerabilityDetails.cvss, score_version)
  ELSE get_cvss_score_from(packageVulnerabilityDetails.cvss, "3.0")

get_cvss_score(packageVulnerabilityDetails, score_version) ==
  get_cvss_score_from(packageVulnerabilityDetails.cvss, score_version)

\* get_cvss_v3_severity with a CRITICAL band that starts above 9.0
get_cvss_v3_severity_above_nine(cvss_v3_score) ==
  IF cvss_v3_score > 90 THEN "CRITICAL"
  ELSE IF cvss_v3_score >= 70 THEN "HIGH"
  ELSE IF cvss_v3_score >= 40 THEN "MEDIUM"
  ELSE IF cvss_v3_score >= 1 THEN "LOW"
  ELSE "UNDEFINED"

\* AllowListFormatVulnerability.get_cvss_v3_severity (score in tenths)
get_cvss_v3_severity(cvss_v3_score) ==
  IF cvss_v3_score >= 90 THEN "CRITICAL"
  ELSE IF cvss_v3_score >= 70 THEN "HIGH"
  ELSE IF cvss_v3_score >= 40 THEN "MEDIUM"
  ELSE IF cvss_v3_score >= 1 THEN "LOW"
  ELSE "UNDEFINED"

\* AllowListFormatVulnerability.__init__ followed by set_package_details_and_name
\* and the JSON round trip of construct_allowlist_from_ecr_scan_result
AllowListFormatVulnerability(finding, vulnerable_package) ==
  LET details == finding.packageVulnerabilityDetails
      package_details == VulnerablePackageDetails(vulnerable_package)
      cvss_v3_score == get_cvss_score(details, "3.1")
  IN  [description |-> finding.description,
       vulnerability_id |-> details.vulnerabilityId,
       name |-> details.vulnerabilityId,
       package_name |-> package_details.name,
       package_details |-> package_details,
       remediation |-> finding.remediation,
       cvss_v3_score |-> cvss_v3_score,
       cvss_v30_score |-> get_cvss_score(details, "3.0"),
       cvss_v2_score |-> get_cvss_score(details, "2.0"),
       cvss_v3_severity |-> get_cvss_v3_severity(cvss_v3_score),
       source_url |-> details.sourceUrl,
       source |-> details.source,
       severity |-> finding.severity,
       status |-> finding.status,
       title |-> finding.title]

e1 == AllowListFormatVulnerability(f1, f1.packageVulnerabilityDetails.vulnerablePackages[1])
e1v == AllowListFormatVulnerability(f1v, f1v.packageVulnerabilityDetails.vulnerablePackages[1])
e2a == AllowListFormatVulnerability(f2, f2.packageVulnerabilityDetails.vulnerablePackages[1])
e2b == AllowListFormatVulnerability(f2, f2.packageVulnerabilityDetails.vulnerablePackages[2])
e3 == AllowListFormatVulnerability(f3, f3.packageVulnerabilityDetails.vulnerablePackages[1])
e4 == AllowListFormatVulnerability(f4, f4.packageVulnerabilityDetails.vulnerablePackages[1])
e5 == AllowListFormatVulnerability(f5, f5.packageVulnerabilityDetails.vulnerablePackages[1])
e6 == AllowListFormatVulnerability(f6, f6.packageVulnerabilityDetails.vulnerablePackages[1])
e7 == AllowListFormatVulnerability(f7, f7.packageVulnerabilityDetails.vulnerablePackages[1])
e8a == AllowListFormatVulnerability(f8, f8.packageVulnerabilityDetails.vulnerablePackages[1])
e8b == AllowListFormatVulnerability(f8, f8.packageVulnerabilityDetails.vulnerablePackages[2])

\* allowlist-format records of the enhanced scan, in the order uniquify ranks them
EnhancedUniverse == <<e1, e1v, e2a, e2b, e3, e4, e5, e6, e7, e8a, e8b>>

Universe(fmt) == IF fmt = "basic" THEN BasicUniverse ELSE EnhancedUniverse

\* ------------------------------------------------- helpers of test_utils
\* test_utils.check_if_two_dictionaries_are_equal: equality of the two dicts
\* once the ignored keys are removed from both.
check_if_two_dictionaries_are_equal(dict1, dict2, ignore_keys) ==
  LET dict1_filtered == [k \in DOMAIN dict1 \ ignore_keys |-> dict1[k]]
      dict2_filtered == [k \in DOMAIN dict2 \ ignore_keys |-> dict2[k]]
  IN  /\ DOMAIN dict1_filtered = DOMAIN dict2_filtered
      /\ \A k \in DOMAIN dict1_filtered : dict1_filtered[k] = dict2_filtered[k]

\* rank of a record in the canonical order of its serialised form
UniRank(universe) ==
  [x \in Range(universe) |-> CHOOSE i \in 1..Len(universe) : universe[i] = x]

\* test_utils.uniquify_list_of_dict: every structurally distinct dict of the
\* list exactly once, in the canonical order of the serialised dicts.
uniquify_list_of_dict(list_of_dict, universe) ==
  LET first == {i \in 1..Len(list_of_dict) :
                  \A j \in 1..(i - 1) : list_of_dict[j] /= list_of_dict[i]}
      kept == [i \in 1..Len(list_of_dict) |-> i \in first]
      RECURSIVE Firsts(_)
      Firsts(i) ==
        IF i > Len(list_of_dict) THEN <<>>
        ELSE (IF kept[i] THEN <<list_of_dict[i]>> ELSE <<>>) \o Firsts(i + 1)
  IN  SortByRank(Firsts(1), UniRank(universe))

\* ------------------------------------------------------------ Python dict
\* a dict is a sequence of [key, vulns] entries in insertion order
Keys(d) == {d[i].key : i \in 1..Len(d)}

Get(d, k) == d[CHOOSE i \in 1..Len(d) : d[i].key = k].vulns

\* d[k] = [] when k is not yet a key
SetDefault(d, k) ==
  IF k \in Keys(d) THEN d ELSE Append(d, [key |-> k, vulns |-> <<>>])

\* d[k].append(v), k being a key of d
AppendTo(d, k, v) ==
  [i \in 1..Len(d) |->
     IF d[i].key = k THEN [key |-> k, vulns |-> Append(d[i].vulns, v)] ELSE d[i]]

\* ------------------------------------------------- ScanVulnerabilityList
\* ScanVulnerabilityList.__init__
NewList(fmt, minimum_severity) ==
  [fmt |-> fmt, minimum_severity |-> minimum_severity, vulnerability_list |-> <<>>]

RECURSIVE basic_package_name(_)
basic_package_name(attributes) ==
  IF attributes = <<>> THEN "None"
  ELSE IF Head(attributes).key = "package_name" THEN Head(attributes).value
       ELSE basic_package_name(Tail(attributes))

\* get_vulnerability_package_name_from_allowlist_formatted_vulnerability of
\* the two subclasses
get_vulnerability_package_name(fmt, vulnerability) ==
  IF fmt = "basic" THEN basic_package_name(vulnerability.attributes)
  ELSE vulnerability.package_name

\* the basic predicate comparing the package_version attribute as well
basic_are_vulnerabilities_equivalent_with_version(vulnerability_1, vulnerability_2) ==
  /\ vulnerability_1.name = vulnerability_2.name
  /\ vulnerability_1.severity = vulnerability_2.severity
  /\ \A i \in 1..Len(vulnerability_1.attributes) :
        vulnerability_1.attributes[i] \in Range(vulnerability_2.attributes)

\* ECRBasicScanVulnerabilityList.are_vulnerabilities_equivalent
basic_are_vulnerabilities_equivalent(vulnerability_1, vulnerability_2) ==
  /\ vulnerability_1.name = vulnerability_2.name
  /\ vulnerability_1.severity = vulnerability_2.severity
  /\ \A i \in 1..Len(vulnerability_1.attributes) :
        vulnerability_1.attributes[i].key /= "package_version"
          => vulnerability_1.attributes[i] \in Range(vulnerability_2.attributes)

\* ECREnhancedScanVulnerabilityList.are_vulnerabilities_equivalent
enhanced_are_vulnerabilities_equivalent(vulnerability_1, vulnerability_2) ==
  IF check_if_two_dictionaries_are_equal(
       vulnerability_1.package_details, vulnerability_2.package_details, {"version"})
  THEN check_if_two_dictionaries_are_equal(vulnerability_1, vulnerability_2, {"package_details"})
  ELSE FALSE

are_vulnerabilities_equivalent(fmt, vulnerability_1, vulnerability_2) ==
  IF fmt = "basic" THEN basic_are_vulnerabilities_equivalent(vulnerability_1, vulnerability_2)
  ELSE enhanced_are_vulnerabilities_equivalent(vulnerability_1, vulnerability_2)

\* the severity a subclass filters on
SeverityOf(fmt, vulnerability) ==
  IF fmt = "basic" THEN vulnerability.severity ELSE vulnerability.cvss_v3_severity

\* ScanVulnerabilityList.get_flattened_vulnerability_list
RECURSIVE Flatten(_)
Flatten(d) == IF d = <<>> THEN <<>> ELSE Head(d).vulns \o Flatten(Tail(d))

get_flattened_vulnerability_list(self) == Flatten(self.vulnerability_list)

\* get_sorted_vulnerability_list leaving the outer dict in insertion order
get_sorted_vulnerability_list_keys_as_inserted(self) ==
  LET universe == Universe(self.fmt)
      nameRank == [x \in Range(universe) |-> StrRank[x.name]]
      copy_dict == [i \in 1..Len(self.vulnerability_list) |->
                      [key |-> self.vulnerability_list[i].key,
                       vulns |-> SortByRank(
                                   uniquify_list_of_dict(self.vulnerability_list[i].vulns, universe),
                                   nameRank)]]
  IN  copy_dict

\* get_sorted_vulnerability_list sorting by "name" without uniquifying first
get_sorted_vulnerability_list_by_name_only(self) ==
  LET universe == Universe(self.fmt)
      nameRank == [x \in Range(universe) |-> StrRank[x.name]]
      copy_dict == [i \in 1..Len(self.vulnerability_list) |->
                      [key |-> self.vulnerability_list[i].key,
                       vulns |-> SortByRank(self.vulnerability_list[i].vulns, nameRank)]]
      keyRank == [e \in Range(copy_dict) |-> StrRank[e.key]]
  IN  SortByRank(copy_dict, keyRank)

\* ScanVulnerabilityList.get_sorted_vulnerability_list: every inner list
\* uniquified and sorted by "name", the outer dict sorted by key
get_sorted_vulnerability_list(self) ==
  LET universe == Universe(self.fmt)
      nameRank == [x \in Range(universe) |-> StrRank[x.name]]
      copy_dict == [i \in 1..Len(self.vulnerability_list) |->
                      [key |-> self.vulnerability_list[i].key,
                       vulns |-> SortByRank(
                                   uniquify_list_of_dict(self.vulnerability_list[i].vulns, universe),
                                   nameRank)]]
      keyRank == [e \in Range(copy_dict) |-> StrRank[e.key]]
  IN  SortByRank(copy_dict, keyRank)

\* ECRBasicScanVulnerabilityList.construct_allowlist_from_allowlist_formatted_vulnerabilities:
\* the key is created before the severity is looked at
RECURSIVE basic_construct_from_vulnerabilities(_, _, _)
basic_construct_from_vulnerabilities(vulnerability_list, minimum_severity, vulnerabilities) ==
  IF vulnerabilities = <<>> THEN vulnerability_list
  ELSE LET vulnerability == Head(vulnerabilities)
           package_name == get_vulnerability_package_name("basic", vulnerability)
           with_key == SetDefault(vulnerability_list, package_name)
           next_list == IF CVESeverity[vulnerability.severity] >= minimum_severity
                        THEN AppendTo(with_key, package_name, vulnerability)
                        ELSE with_key
       IN  basic_construct_from_vulnerabilities(next_list, minimum_severity, Tail(vulnerabilities))

\* ECREnhancedScanVulnerabilityList.construct_allowlist_from_allowlist_formatted_vulnerabilities
RECURSIVE enhanced_construct_from_vulnerabilities(_, _, _)
enhanced_construct_from_vulnerabilities(vulnerability_list, minimum_severity, vulnerabilities) ==
  IF vulnerabilities = <<>> THEN vulnerability_list
  ELSE LET vulnerability == Head(vulnerabilities)
           package_name == get_vulnerability_package_name("enhanced", vulnerability)
           next_list == IF CVESeverity[vulnerability.cvss_v3_severity] < minimum_severity
                        THEN vulnerability_list
                        ELSE AppendTo(SetDefault(vulnerability_list, package_name),
                                      package_name, vulnerability)
       IN  enhanced_construct_from_vulnerabilities(next_list, minimum_severity, Tail(vulnerabilities))

\* construct_allowlist_from_allowlist_formatted_vulnerabilities, by subclass
construct_allowlist_from_allowlist_formatted_vulnerabilities(self, vulnerabilities) ==
  [self EXCEPT !.vulnerability_list =
     IF self.fmt = "basic"
     THEN basic_construct_from_vulnerabilities(@, self.minimum_severity, vulnerabilities)
     ELSE enhanced_construct_from_vulnerabilities(@, self.minimum_severity, vulnerabilities)]

\* construct_allowlist_from_file of the basic list without its severity check
RECURSIVE basic_construct_from_file_entry_unfiltered(_, _, _, _)
basic_construct_from_file_entry_unfiltered(vulnerability_list, minimum_severity, package_name, vulnerabilities) ==
  IF vulnerabilities = <<>> THEN vulnerability_list
  ELSE basic_construct_from_file_entry_unfiltered(
         AppendTo(SetDefault(vulnerability_list, package_name), package_name, Head(vulnerabilities)),
         minimum_severity, package_name, Tail(vulnerabilities))

\* ECRBasicScanVulnerabilityList.construct_allowlist_from_file: records are
\* stored under the key the file gives them
RECURSIVE basic_construct_from_file_entry(_, _, _, _)
basic_construct_from_file_entry(vulnerability_list, minimum_severity, package_name, vulnerabilities) ==
  IF vulnerabilities = <<>> THEN vulnerability_list
  ELSE LET vulnerability == Head(vulnerabilities)
           next_list == IF CVESeverity[vulnerability.severity] >= minimum_severity
                        THEN AppendTo(SetDefault(vulnerability_list, package_name),
                                      package_name, vulnerability)
                        ELSE vulnerability_list
       IN  basic_construct_from_file_entry(next_list, minimum_severity, package_name,
                                           Tail(vulnerabilities))

RECURSIVE construct_from_file_entries(_, _, _, _)
construct_from_file_entries(fmt, vulnerability_list, minimum_severity, file_allowlist) ==
  IF file_allowlist = <<>> THEN vulnerability_list
  ELSE LET entry == Head(file_allowlist)
           next_list ==
             IF fmt = "basic"
             THEN basic_construct_from_file_entry(vulnerability_list, minimum_severity,
                                                  entry.key, entry.vulns)
             ELSE enhanced_construct_from_vulnerabilities(vulnerability_list, minimum_severity,
                                                          entry.vulns)
       IN  construct_from_file_entries(fmt, next_list, minimum_severity, Tail(file_allowlist))

\* construct_allowlist_from_file, by subclass
construct_allowlist_from_file(self, file_allowlist) ==
  [self EXCEPT !.vulnerability_list =
     construct_from_file_entries(self.fmt, @, self.minimum_severity, file_allowlist)]

\* the fan-out of one raw enhanced finding: one allowlist-format record per
\* vulnerable package
FanOut(finding) ==
  LET packages == finding.packageVulnerabilityDetails.vulnerablePackages
  IN  [i \in 1..Len(packages) |-> AllowListFormatVulnerability(finding, packages[i])]

RECURSIVE FanOutAll(_)
FanOutAll(findings) ==
  IF findings = <<>> THEN <<>> ELSE FanOut(Head(findings)) \o FanOutAll(Tail(findings))

\* construct_allowlist_from_ecr_scan_result, by subclass; the enhanced one
\* ends by replacing the dict with its sorted view
construct_allowlist_from_ecr_scan_result(self, ecr_format_vulnerability_list) ==
  IF self.fmt = "basic"
  THEN construct_allowlist_from_allowlist_formatted_vulnerabilities(self, ecr_format_vulnerability_list)
  ELSE LET inserted == [self EXCEPT !.vulnerability_list =
                          enhanced_construct_from_vulnerabilities(
                            @, self.minimum_severity, FanOutAll(ecr_format_vulnerability_list))]
       IN  [inserted EXCEPT !.vulnerability_list = get_sorted_vulnerability_list(inserted)]

\* __contains__ handing the two records to the predicate in the other order
ContainsSwapped(self, vulnerability) ==
  LET package_name == get_vulnerability_package_name(self.fmt, vulnerability)
  IN  IF package_name \notin Keys(self.vulnerability_list) THEN FALSE
      ELSE \E i \in 1..Len(Get(self.vulnerability_list, package_name)) :
             are_vulnerabilities_equivalent(
               self.fmt, Get(self.vulnerability_list, package_name)[i], vulnerability)

\* ScanVulnerabilityList.__contains__
Contains(self, vulnerability) ==
  LET package_name == get_vulnerability_package_name(self.fmt, vulnerability)
  IN  IF package_name \notin Keys(self.vulnerability_list) THEN FALSE
      ELSE \E i \in 1..Len(Get(self.vulnerability_list, package_name)) :
             are_vulnerabilities_equivalent(
               self.fmt, vulnerability, Get(self.vulnerability_list, package_name)[i])

\* the absent object
None == [fmt |-> "None"]

IsNone(x) == x.fmt = "None"

Min(a, b) == IF a <= b THEN a ELSE b

\* ScanVulnerabilityList.__cmp__ (other may be None)
Cmp(self, other) ==
  IF IsNone(other) \/ other.vulnerability_list = <<>>
  THEN self.vulnerability_list = <<>>
  ELSE IF Keys(self.vulnerability_list) /= Keys(other.vulnerability_list) THEN FALSE
  ELSE \A package_name \in Keys(self.vulnerability_list) :
         /\ Len(Get(self.vulnerability_list, package_name))
              = Len(Get(other.vulnerability_list, package_name))
         /\ LET mine == Get(get_sorted_vulnerability_list(self), package_name)
                theirs == Get(get_sorted_vulnerability_list(other), package_name)
            IN  \A i \in 1..Min(Len(mine), Len(theirs)) :
                  are_vulnerabilities_equivalent(self.fmt, mine[i], theirs[i])

\* ScanVulnerabilityList.__sub__: "none" for None, "self" when the object
\* itself is returned, "new" with the freshly built object otherwise
Sub(self, other) ==
  IF self.vulnerability_list = <<>> THEN [kind |-> "none"]
  ELSE IF IsNone(other) \/ other.vulnerability_list = <<>> THEN [kind |-> "self"]
  ELSE LET flat == get_flattened_vulnerability_list(self)
           missing_vulnerabilities ==
             FilterSeq(flat, {v \in Range(flat) : ~Contains(other, v)})
       IN  IF missing_vulnerabilities = <<>> THEN [kind |-> "none"]
           ELSE [kind |-> "new",
                 obj |-> construct_allowlist_from_allowlist_formatted_vulnerabilities(
                           NewList(self.fmt, self.minimum_severity), missing_vulnerabilities)]

\* __add__ without the call of uniquify_list_of_dict
AddNoUniquify(self, other) ==
  LET all_vulnerabilities ==
        get_flattened_vulnerability_list(self) \o get_flattened_vulnerability_list(other)
  IN  IF all_vulnerabilities = <<>> THEN [kind |-> "none"]
      ELSE [kind |-> "new",
            obj |-> construct_allowlist_from_allowlist_formatted_vulnerabilities(
                      NewList(self.fmt, self.minimum_severity), all_vulnerabilities)]

\* __add__ building the union with the threshold of the other list
AddOtherThreshold(self, other) ==
  LET all_vulnerabilities ==
        get_flattened_vulnerability_list(self) \o get_flattened_vulnerability_list(other)
  IN  IF all_vulnerabilities = <<>> THEN [kind |-> "none"]
      ELSE [kind |-> "new",
            obj |-> construct_allowlist_from_allowlist_formatted_vulnerabilities(
                      NewList(self.fmt, other.minimum_severity),
                      uniquify_list_of_dict(all_vulnerabilities, Universe(self.fmt)))]

\* ScanVulnerabilityList.__add__
Add(self, other) ==
  LET all_vulnerabilities ==
        get_flattened_vulnerability_list(self) \o get_flattened_vulnerability_list(other)
  IN  IF all_vulnerabilities = <<>> THEN [kind |-> "none"]
      ELSE [kind |-> "new",
            obj |-> construct_allowlist_from_allowlist_formatted_vulnerabilities(
                      NewList(self.fmt, self.minimum_severity),
                      uniquify_list_of_dict(all_vulnerabilities, Universe(self.fmt)))]

\* ------------------------------------------------------------ the inputs
Dict1(k, vulns) == <<[key |-> k, vulns |-> vulns]>>

\* Allowlist files of the repository.  They are JSON files under version
\* control, written by save_vulnerability_list or by hand, so a file may
\* hold a record under a key that is not its package name, the same record
\* twice, or records below the threshold of the list that loads it.
BasicFiles ==
  {Dict1("pkgA", <<b1v, b2>>),
   Dict1("pkgA", <<b1, b1>>),
   Dict1("pkgB", <<b1>>)}

EnhancedFiles ==
  {Dict1("pkgA", <<e1v, e2a>>),
   Dict1("pkgA", <<e1, e1>>),
   Dict1("pkgB", <<e1, e3>>)}

ExternalFiles(fmt) == IF fmt = "basic" THEN BasicFiles ELSE EnhancedFiles

\* What a basic scan returns in the model: nothing, one finding, the same
\* findings in two orders, a finding twice, findings of two packages.
BasicScanResults ==
  {<<>>, <<b1>>, <<b2>>, <<b3>>, <<b1, b2>>, <<b2, b1>>, <<b1, b1>>, <<b1x, b3>>}

\* What an enhanced scan returns in the model; f2 names two packages, f3 has
\* no CVSS 3.1 score.
EnhancedScanResults ==
  {<<>>, <<f1>>, <<f2>>, <<f3>>, <<f1, f2>>, <<f2, f1>>, <<f1, f1v>>, <<f4, f1>>}

ScanResults(fmt) == IF fmt = "basic" THEN BasicScanResults ELSE EnhancedScanResults

\* -------------------------------------------------------------- the state
VARIABLES
  heap,     \* the ScanVulnerabilityList objects, by object id
  file,     \* the allowlist file written by save_vulnerability_list
  last,     \* the most recent difference / union / equality / save call
  nCalls    \* calls made so far

vars == <<heap, file, last, nCalls>>

Objects == 1..Len(heap)

NoFile == [fmt |-> "None", content |-> <<>>]

NoCall == [op |-> "none", a |-> 0, b |-> 0, ret |-> 0,
           A |-> None, B |-> None, R |-> None, flag |-> FALSE]

\* a list as its caller sets it up: created with a threshold, then filled
\* from a scan result or from the allowlist file
FilledLists(fmt) ==
  {construct_allowlist_from_ecr_scan_result(NewList(fmt, minimum_severity), scan_result) :
     minimum_severity \in Thresholds, scan_result \in ScanResults(fmt)}
  \cup
  {construct_allowlist_from_file(NewList(fmt, minimum_severity), file_allowlist) :
     minimum_severity \in Thresholds, file_allowlist \in ExternalFiles(fmt)}

\* two lists of one format, set up by the caller
Init ==
  /\ \E fmt \in {"basic", "enhanced"} :
       \E A \in FilledLists(fmt), B \in FilledLists(fmt) : heap = <<A, B>>
  /\ file = NoFile
  /\ last = NoCall
  /\ nCalls = 0

\* o.construct_allowlist_from_ecr_scan_result(scan_result)
ConstructFromScanResult(o, scan_result) ==
  /\ nCalls < MaxCalls
  /\ heap' = [heap EXCEPT ![o] = construct_allowlist_from_ecr_scan_result(@, scan_result)]
  /\ nCalls' = nCalls + 1
  /\ UNCHANGED <<file, last>>

\* o.construct_allowlist_from_file(path), the file holding file_allowlist
ConstructFromFile(o, file_allowlist) ==
  /\ nCalls < MaxCalls
  /\ heap' = [heap EXCEPT ![o] = construct_allowlist_from_file(@, file_allowlist)]
  /\ nCalls' = nCalls + 1
  /\ UNCHANGED <<file, last>>

\* the heap and the returned object id after an operation returned r
Returned(a, r) ==
  CASE r.kind = "none" -> [heap |-> heap, ret |-> 0, R |-> None]
    [] r.kind = "self" -> [heap |-> heap, ret |-> a, R |-> heap[a]]
    [] r.kind = "new" -> [heap |-> Append(heap, r.obj), ret |-> Len(heap) + 1, R |-> r.obj]

\* heap[a] - heap[b]
Difference(a, b) ==
  LET out == Returned(a, Sub(heap[a], heap[b]))
  IN  /\ nCalls < MaxCalls
      /\ heap' = out.heap
      /\ last' = [op |-> "sub", a |-> a, b |-> b, ret |-> out.ret,
                  A |-> heap[a], B |-> heap[b], R |-> out.R, flag |-> FALSE]
      /\ nCalls' = nCalls + 1
      /\ UNCHANGED file

\* heap[a] + heap[b]
Union(a, b) ==
  LET out == Returned(a, Add(heap[a], heap[b]))
  IN  /\ nCalls < MaxCalls
      /\ heap' = out.heap
      /\ last' = [op |-> "add", a |-> a, b |-> b, ret |-> out.ret,
                  A |-> heap[a], B |-> heap[b], R |-> out.R, flag |-> FALSE]
      /\ nCalls' = nCalls + 1
      /\ UNCHANGED file

\* heap[a].__cmp__(heap[b])
Compare(a, b) ==
  /\ nCalls < MaxCalls
  /\ last' = [op |-> "cmp", a |-> a, b |-> b, ret |-> 0,
              A |-> heap[a], B |-> heap[b], R |-> None, flag |-> Cmp(heap[a], heap[b])]
  /\ nCalls' = nCalls + 1
  /\ UNCHANGED <<heap, file>>

\* heap[o].save_vulnerability_list(path); flag records the ValueError
Save(o) ==
  /\ nCalls < MaxCalls
  /\ file' = IF heap[o].vulnerability_list /= <<>>
             THEN [fmt |-> heap[o].fmt, content |-> get_sorted_vulnerability_list(heap[o])]
             ELSE file
  /\ last' = [op |-> "save", a |-> o, b |-> 0, ret |-> 0,
              A |-> heap[o], B |-> None, R |-> None,
              flag |-> (heap[o].vulnerability_list = <<>>)]
  /\ nCalls' = nCalls + 1
  /\ UNCHANGED heap

\* the files a list of the format can load
Files(fmt) == ExternalFiles(fmt) \cup (IF file.fmt = fmt THEN {file.content} ELSE {})

Next ==
  \/ \E o \in Objects : \E scan_result \in ScanResults(heap[o].fmt) :
       ConstructFromScanResult(o, scan_result)
  \/ \E o \in Objects : \E file_allowlist \in Files(heap[o].fmt) :
       ConstructFromFile(o, file_allowlist)
  \/ \E a \in Objects, b \in Objects : Difference(a, b)
  \/ \E a \in Objects, b \in Objects : Union(a, b)
  \/ \E a \in Objects, b \in Objects : Compare(a, b)
  \/ \E o \in Objects : Save(o)

Spec == Init /\ [][Next]_vars

\* ------------------------------------------------------------ the claims
\* how often x occurs in the sequence s
Count(s, x) == Cardinality({i \in 1..Len(s) : s[i] = x})

\* the two sequences hold the same records the same number of times
SameRecords(s, t) == \A x \in Range(s) \cup Range(t) : Count(s, x) = Count(t, x)

Records(list) == Flatten(list.vulnerability_list)

SeverityRank(list, v) == CVESeverity[SeverityOf(list.fmt, v)]

\* C1: difference(A, A) is None for every list A, however A was built.
C1_SelfDifferenceIsNone ==
  (last.op = "sub" /\ last.a = last.b) => last.ret = 0

\* C2: every record a list holds has a severity >= the list's
\* minimum_severity, in every reachable state.
C2_SeverityAtLeastThreshold ==
  \A o \in Objects : \A i \in 1..Len(Records(heap[o])) :
    SeverityRank(heap[o], Records(heap[o])[i]) >= heap[o].minimum_severity

\* C2 witness: a list with threshold HIGH was loaded from a file that also
\* holds a record below HIGH, and holds the other records of the file.
C2_Witness ==
  \E o \in Objects : \E f \in ExternalFiles(heap[o].fmt) :
    /\ \E v \in Range(Flatten(f)) : SeverityRank(heap[o], v) < CVESeverity["HIGH"]
    /\ heap[o] = construct_allowlist_from_file(NewList(heap[o].fmt, CVESeverity["HIGH"]), f)
    /\ Records(heap[o]) /= <<>>

\* C3: every record stored under package key K has package name K.
C3_KeyIsPackageName ==
  \A o \in Objects : \A e \in Range(heap[o].vulnerability_list) :
    \A v \in Range(e.vulns) : get_vulnerability_package_name(heap[o].fmt, v) = e.key

\* v has an equivalent among the records B stores under v's package name
MatchedIn(B, v) ==
  \E e \in Range(B.vulnerability_list) :
    /\ e.key = get_vulnerability_package_name(B.fmt, v)
    /\ \E w \in Range(e.vulns) : are_vulnerabilities_equivalent(B.fmt, v, w)

Unmatched(A, B) == {v \in Range(Records(A)) : ~MatchedIn(B, v)}

\* C4: a difference that returns a list returns exactly the records of A
\* without an equivalent under their package name in B.
C4_DifferenceIsUnmatched ==
  (last.op = "sub" /\ last.ret /= 0) =>
    SameRecords(Records(last.R), FilterSeq(Records(last.A), Unmatched(last.A, last.B)))

\* C4 witness: a difference dropped a record and kept another
C4_Witness ==
  /\ last.op = "sub"
  /\ last.ret /= 0
  /\ Records(last.R) /= <<>>
  /\ Len(Records(last.R)) < Len(Records(last.A))

\* C5: difference(A, B) is None iff A holds no record or every record of A
\* has an equivalent in B; otherwise it is a list with at least one record.
C5_NoneIffNothingLeft ==
  last.op = "sub" =>
    /\ last.ret = 0 <=> (Records(last.A) = <<>> \/ Unmatched(last.A, last.B) = {})
    /\ last.ret /= 0 => Records(last.R) /= <<>>

\* C6: difference and union leave their operands alone and return a list
\* that is neither operand, so that filling the result changes neither.
C6_ResultIsNew ==
  [][/\ last'.op \in {"sub", "add"} /\ last' /= last =>
          /\ heap'[last'.a] = heap[last'.a]
          /\ heap'[last'.b] = heap[last'.b]
          /\ last'.ret /= 0 => last'.ret \notin {last'.a, last'.b}
     /\ (last.op \in {"sub", "add"} /\ last.ret /= 0 /\ last' = last
           /\ heap'[last.ret] /= heap[last.ret]) =>
          /\ heap'[last.a] = heap[last.a]
          /\ heap'[last.b] = heap[last.b]]_vars

SameDict(d1, d2) ==
  /\ Keys(d1) = Keys(d2)
  /\ \A k \in Keys(d1) : Get(d1, k) = Get(d2, k)

\* C7: when A and B share no package key, difference(A, B) equals A.
C7_DisjointDifferenceIsA ==
  (last.op = "sub" /\ Keys(last.A.vulnerability_list) \cap Keys(last.B.vulnerability_list) = {}) =>
    /\ Cmp(last.A, last.R)
    /\ IF last.ret = 0 THEN last.A.vulnerability_list = <<>>
       ELSE SameDict(last.R.vulnerability_list, last.A.vulnerability_list)

\* C8 as stated: union(A, A) holds as many records as a non-empty A.
C8_SelfUnionSameCount ==
  (last.op = "add" /\ last.a = last.b /\ Records(last.A) /= <<>>) =>
    /\ last.ret /= 0
    /\ Len(Records(last.R)) = Len(Records(last.A))

\* C8 amended: union(A, A) holds as many records as A holds structurally
\* distinct records.
C8_SelfUnionDistinctCount ==
  (last.op = "add" /\ last.a = last.b /\ Records(last.A) /= <<>>) =>
    /\ last.ret /= 0
    /\ Len(Records(last.R)) = Cardinality(Range(Records(last.A)))

\* C8 witness: a self-union of a list that holds the same record twice
C8_Witness ==
  /\ last.op = "add"
  /\ last.a = last.b
  /\ Cardinality(Range(Records(last.A))) < Len(Records(last.A))
  /\ last.ret /= 0

\* the records union(A, B) has to hold, each once
UnionRecords(A, B) ==
  {v \in Range(Records(A)) \cup Range(Records(B)) : SeverityRank(A, v) >= A.minimum_severity}

UnionHolds(A, B, R) ==
  /\ R.fmt = A.fmt
  /\ R.minimum_severity = A.minimum_severity
  /\ Range(Records(R)) = UnionRecords(A, B)
  /\ \A v \in Range(Records(R)) : Count(Records(R), v) = 1
  /\ \A e \in Range(R.vulnerability_list) : \A v \in Range(e.vulns) :
       get_vulnerability_package_name(R.fmt, v) = e.key

\* C9 as stated: union(A, B) returns a new list of A's type and threshold
\* that holds every distinct record of A and B at or above A's threshold
\* once, under its package name.
C9_UnionIsNewList ==
  last.op = "add" =>
    /\ last.ret /= 0
    /\ last.ret \notin {last.a, last.b}
    /\ UnionHolds(last.A, last.B, last.R)

\* C9 amended: the same when A or B holds a record; None when neither does.
C9_UnionIsNewListOrNone ==
  last.op = "add" =>
    IF Records(last.A) = <<>> /\ Records(last.B) = <<>> THEN last.ret = 0
    ELSE /\ last.ret /= 0
         /\ last.ret \notin {last.a, last.b}
         /\ UnionHolds(last.A, last.B, last.R)

\* v and w differ in the observed package version only
VersionVariants(fmt, v, w) ==
  /\ v /= w
  /\ are_vulnerabilities_equivalent(fmt, v, w)
  /\ are_vulnerabilities_equivalent(fmt, w, v)

\* C9 witness: a union kept two records that differ only in the version and
\* dropped a record below A's threshold
C9_Witness ==
  /\ last.op = "add"
  /\ last.ret /= 0
  /\ \E v \in Range(Records(last.R)), w \in Range(Records(last.R)) :
       VersionVariants(last.R.fmt, v, w)
  /\ \E v \in Range(Records(last.B)) : SeverityRank(last.A, v) < last.A.minimum_severity

\* the records of one key sorted by name, every duplicate kept
SortedKeepingAll(fmt, vulns) ==
  LET universe == Universe(fmt)
      nameRank == [x \in Range(universe) |-> StrRank[x.name]]
  IN  SortByRank(SortByRank(vulns, UniRank(universe)), nameRank)

\* equality as the claim states it
EqualAsStated(A, B) ==
  /\ Keys(A.vulnerability_list) = Keys(B.vulnerability_list)
  /\ \A k \in Keys(A.vulnerability_list) :
       LET mine == SortedKeepingAll(A.fmt, Get(A.vulnerability_list, k))
           theirs == SortedKeepingAll(B.fmt, Get(B.vulnerability_list, k))
       IN  /\ Len(mine) = Len(theirs)
           /\ \A i \in 1..Len(mine) : are_vulnerabilities_equivalent(A.fmt, mine[i], theirs[i])

\* C10: __cmp__ is true iff the lists have the same keys, as many records
\* under every key, and equivalent records at every sorted position.
C10_EqualityIsPositionwise ==
  last.op = "cmp" => (last.flag <=> EqualAsStated(last.A, last.B))

\* the keys of the attributes of a basic-scan record
AttributeKeys(v) == {v.attributes[i].key : i \in 1..Len(v.attributes)}

\* the scanned record agrees with the allowlisted one in name, severity and
\* every attribute of the allowlisted record but the version, and carries
\* one attribute more
AddsOneAttribute(scanned, allowed) ==
  /\ scanned.name = allowed.name
  /\ scanned.severity = allowed.severity
  /\ \A i \in 1..Len(allowed.attributes) :
       allowed.attributes[i].key /= "package_version"
         => allowed.attributes[i] \in Range(scanned.attributes)
  /\ AttributeKeys(allowed) \subseteq AttributeKeys(scanned)
  /\ Cardinality(AttributeKeys(scanned) \ AttributeKeys(allowed)) = 1

\* C13: a scanned basic record that adds one attribute to a record the
\* allowlist stores under its package is contained in the allowlist and is
\* not among the records difference(scan, allowlist) returns.
C13_ExtraAttributeIsTolerated ==
  (last.op = "sub" /\ last.A.fmt = "basic") =>
    \A v \in Range(Records(last.A)) :
      (\E e \in Range(last.B.vulnerability_list) :
         /\ e.key = get_vulnerability_package_name("basic", v)
         /\ \E w \in Range(e.vulns) : AddsOneAttribute(v, w))
      => /\ Contains(last.B, v)
         /\ last.ret /= 0 => v \notin Range(Records(last.R))

\* C14: save_vulnerability_list raises and writes nothing when the list
\* holds no record; otherwise it writes the sorted view, which holds every
\* distinct record of the list once.
C14_SaveRaisesWithoutRecords ==
  last.op = "save" =>
    /\ last.flag <=> Records(last.A) = <<>>
    /\ Records(last.A) = <<>> => file = NoFile
    /\ Records(last.A) /= <<>> =>
         /\ file.content = get_sorted_vulnerability_list(last.A)
         /\ Range(Flatten(file.content)) = Range(Records(last.A))
         /\ \A v \in Range(Flatten(file.content)) : Count(Flatten(file.content), v) = 1

\* ------------------------------------------------ calls on their own inputs
\* A second specification: one call of a function or of a workflow, on
\* inputs of its own.  `last` starts as the call about to be made (done is
\* FALSE) and becomes the call as it returned; `heap` holds the list objects
\* the call is handed and those it creates.

\* every reordering of the sequence s
Reorderings(s) == {t \in [1..Len(s) -> Range(s)] : SameRecords(s, t)}

\* Findings handed to a list in one order and in another: records of one
\* package with different names, with the same name, and of two packages.
BasicOrderInputs == {<<b1, b2>>, <<b1, b1v>>, <<b1x, b1, b2>>, <<b1v, b3, b1>>}

EnhancedOrderInputs == {<<f1, f2>>, <<f1, f1v>>, <<f4, f1v, f1>>}

EnhancedRecordOrderInputs == {<<e1, e1v>>, <<e1v, e2a, e1>>}

\* the two ways a list is filled with records: raw findings of a scan, or
\* records in allowlist format
Fill(self, how, records) ==
  IF how = "scan" THEN construct_allowlist_from_ecr_scan_result(self, records)
  ELSE construct_allowlist_from_allowlist_formatted_vulnerabilities(self, records)

OrderInputs ==
  {[fmt |-> "basic", how |-> how, records |-> s] :
     how \in {"scan", "records"}, s \in BasicOrderInputs}
  \cup {[fmt |-> "enhanced", how |-> "scan", records |-> s] : s \in EnhancedOrderInputs}
  \cup {[fmt |-> "enhanced", how |-> "records", records |-> s] : s \in EnhancedRecordOrderInputs}

OrderCall(fmt, how, minimum_severity, first, second) ==
  [op |-> "order", done |-> FALSE, fmt |-> fmt, how |-> how,
   minimum_severity |-> minimum_severity, first |-> first, second |-> second,
   A |-> None, B |-> None, flag |-> FALSE]

\* the calls that hand one set of records to two lists in two orders
PendingOrderCalls ==
  UNION {{OrderCall(x.fmt, x.how, minimum_severity, first, second) :
            minimum_severity \in Thresholds,
            first \in Reorderings(x.records), second \in Reorderings(x.records)} :
         x \in OrderInputs}

\* two new lists of one format and threshold are filled with the same
\* records in two orders and compared
FillInTwoOrders ==
  /\ last.op = "order"
  /\ ~last.done
  /\ LET A == Fill(NewList(last.fmt, last.minimum_severity), last.how, last.first)
         B == Fill(NewList(last.fmt, last.minimum_severity), last.how, last.second)
     IN  /\ heap' = <<A, B>>
         /\ last' = [last EXCEPT !.done = TRUE, !.A = A, !.B = B, !.flag = Cmp(A, B)]
  /\ UNCHANGED <<file, nCalls>>

PendingEquivalentCalls ==
  {[op |-> "equivalent", done |-> FALSE, fmt |-> fmt,
    vulnerability_1 |-> vulnerability_1, vulnerability_2 |-> vulnerability_2,
    flag |-> FALSE] :
     fmt \in {"basic"}, vulnerability_1 \in Range(BasicUniverse),
     vulnerability_2 \in Range(BasicUniverse)}
  \cup
  {[op |-> "equivalent", done |-> FALSE, fmt |-> fmt,
    vulnerability_1 |-> vulnerability_1, vulnerability_2 |-> vulnerability_2,
    flag |-> FALSE] :
     fmt \in {"enhanced"}, vulnerability_1 \in Range(EnhancedUniverse),
     vulnerability_2 \in Range(EnhancedUniverse)}

\* are_vulnerabilities_equivalent(vulnerability_1, vulnerability_2) of the
\* list class of the format
AreVulnerabilitiesEquivalent ==
  /\ last.op = "equivalent"
  /\ ~last.done
  /\ last' = [last EXCEPT
                !.done = TRUE,
                !.flag = are_vulnerabilities_equivalent(
                           last.fmt, last.vulnerability_1, last.vulnerability_2)]
  /\ UNCHANGED <<heap, file, nCalls>>

\* the two records are identical except for the observed package version
OnlyVersionDiffers(fmt, v1, v2) ==
  IF fmt = "basic"
  THEN /\ v1.name = v2.name
       /\ v1.severity = v2.severity
       /\ Len(v1.attributes) = Len(v2.attributes)
       /\ \A i \in 1..Len(v1.attributes) :
            /\ v1.attributes[i].key = v2.attributes[i].key
            /\ v1.attributes[i].key /= "package_version"
                 => v1.attributes[i].value = v2.attributes[i].value
  ELSE [v1 EXCEPT !.package_details.version = v2.package_details.version] = v2

\* C12: both predicates hold, in either argument order, for two records
\* that differ in nothing but the observed package version.
C12_VersionIsIgnored ==
  (last.op = "equivalent" /\ last.done
     /\ (\/ OnlyVersionDiffers(last.fmt, last.vulnerability_1, last.vulnerability_2)
         \/ OnlyVersionDiffers(last.fmt, last.vulnerability_2, last.vulnerability_1)))
    => last.flag

\* C12 witness: the predicate was called on two records with different
\* versions and nothing else different
C12_Witness ==
  /\ last.op = "equivalent"
  /\ last.done
  /\ last.flag
  /\ OnlyVersionDiffers(last.fmt, last.vulnerability_1, last.vulnerability_2)
  /\ last.vulnerability_1 /= last.vulnerability_2

\* an enhanced finding of one package whose only CVSS entry is a v3.1 score
ScoredFinding(score) ==
  RawFinding("CVE-1", <<Cvss("3.1", score)>>, <<RawPackage("pkgA", "1.0")>>, "HIGH")

\* the normalisations of a finding with a v3.1 base score of 0.0 .. 10.0
PendingSeverityCalls ==
  {[op |-> "severity", done |-> FALSE, score |-> score, vulnerability |-> None] :
     score \in 0..MaxScore}

\* AllowListFormatVulnerability(**finding) with the package details set
NormalizeFinding ==
  /\ last.op = "severity"
  /\ ~last.done
  /\ LET finding == ScoredFinding(last.score)
     IN  last' = [last EXCEPT
                    !.done = TRUE,
                    !.vulnerability =
                       AllowListFormatVulnerability(
                         finding, finding.packageVulnerabilityDetails.vulnerablePackages[1])]
  /\ UNCHANGED <<heap, file, nCalls>>

\* C15: a v3.1 score s maps to CRITICAL from 9.0, HIGH from 7.0, MEDIUM
\* from 4.0, LOW from 0.1 and UNDEFINED below; a lower score never maps to
\* a higher severity, and no score maps to INFORMATIONAL.
C15_SeverityBands ==
  (last.op = "severity" /\ last.done) =>
    LET s == last.score
        severity == last.vulnerability.cvss_v3_severity
    IN  /\ last.vulnerability.cvss_v3_score = s
        /\ severity = "CRITICAL" <=> s >= 90
        /\ severity = "HIGH" <=> (s >= 70 /\ s < 90)
        /\ severity = "MEDIUM" <=> (s >= 40 /\ s < 70)
        /\ severity = "LOW" <=> (s >= 1 /\ s < 40)
        /\ severity = "UNDEFINED" <=> s < 1
        /\ severity /= "INFORMATIONAL"
        /\ \A lower \in 0..s :
             CVESeverity[get_cvss_v3_severity(lower)] <= CVESeverity[severity]

\* C15 witness: a finding whose score is the lowest of a band was normalised
C15_Witness ==
  /\ last.op = "severity"
  /\ last.done
  /\ last.score \in {1, 40, 70, 90}
  /\ last.vulnerability.cvss_v3_severity /= get_cvss_v3_severity(last.score - 1)

\* the allowlist file of an image in the repository: absent, or one of the
\* enhanced allowlist files
AllowlistPaths ==
  {[exists |-> FALSE, content |-> <<>>]}
  \cup {[exists |-> TRUE, content |-> file_allowlist] : file_allowlist \in EnhancedFiles}

\* the helper leaving the allowlist empty although its file exists
helper_function_without_allowlist(minimum_sev_threshold, scan_results, allowlist_path) ==
  LET ecr_image_vulnerability_list ==
        construct_allowlist_from_ecr_scan_result(
          NewList("enhanced", minimum_sev_threshold), scan_results)
      image_scan_allowlist == NewList("enhanced", minimum_sev_threshold)
      remaining_vulnerabilities == Sub(ecr_image_vulnerability_list, image_scan_allowlist)
  IN  CASE remaining_vulnerabilities.kind = "none" -> None
        [] remaining_vulnerabilities.kind = "self" -> ecr_image_vulnerability_list
        [] remaining_vulnerabilities.kind = "new" -> remaining_vulnerabilities.obj

\* helper_function_for_leftover_vulnerabilities_from_enhanced_scanning, from
\* the scan findings on: the scan list minus the allowlist of the image, both
\* with the threshold of the image; None when nothing is left
helper_function_for_leftover_vulnerabilities(minimum_sev_threshold, scan_results, allowlist_path) ==
  LET ecr_image_vulnerability_list ==
        construct_allowlist_from_ecr_scan_result(
          NewList("enhanced", minimum_sev_threshold), scan_results)
      image_scan_allowlist ==
        IF allowlist_path.exists
        THEN construct_allowlist_from_file(
               NewList("enhanced", minimum_sev_threshold), allowlist_path.content)
        ELSE NewList("enhanced", minimum_sev_threshold)
      remaining_vulnerabilities == Sub(ecr_image_vulnerability_list, image_scan_allowlist)
  IN  CASE remaining_vulnerabilities.kind = "none" -> None
        [] remaining_vulnerabilities.kind = "self" -> ecr_image_vulnerability_list
        [] remaining_vulnerabilities.kind = "new" -> remaining_vulnerabilities.obj

\* get_ignorable_vulnerabilities: the first record it visits is a dict, and
\* reading its attribute package_details raises an AttributeError
get_ignorable_vulnerabilities(vulnerability_list_object) ==
  IF Records(vulnerability_list_object) /= <<>> THEN "AttributeError" ELSE "returned"

\* the body of test_ecr_enhanced_scan after the scan: how the test ends
test_ecr_enhanced_scan(remaining_vulnerabilities) ==
  IF IsNone(remaining_vulnerabilities) THEN "passed"
  ELSE IF get_ignorable_vulnerabilities(remaining_vulnerabilities) = "AttributeError"
  THEN "AttributeError"
  ELSE IF remaining_vulnerabilities.vulnerability_list /= <<>> THEN "AssertionError"
  ELSE "passed"

\* the runs of test_ecr_enhanced_scan: an image with its threshold, the
\* findings of its enhanced scan and its allowlist file
PendingEnhancedScanCalls ==
  {[op |-> "enhanced_scan", done |-> FALSE, minimum_sev_threshold |-> minimum_sev_threshold,
    scan_results |-> scan_results, allowlist_path |-> allowlist_path,
    remaining_vulnerabilities |-> None, outcome |-> "running"] :
     minimum_sev_threshold \in Thresholds, scan_results \in EnhancedScanResults,
     allowlist_path \in AllowlistPaths}

\* test_ecr_enhanced_scan(image, ...)
TestEcrEnhancedScan ==
  /\ last.op = "enhanced_scan"
  /\ ~last.done
  /\ LET remaining_vulnerabilities ==
           helper_function_for_leftover_vulnerabilities(
             last.minimum_sev_threshold, last.scan_results, last.allowlist_path)
     IN  last' = [last EXCEPT
                    !.done = TRUE,
                    !.remaining_vulnerabilities = remaining_vulnerabilities,
                    !.outcome = test_ecr_enhanced_scan(remaining_vulnerabilities)]
  /\ UNCHANGED <<heap, file, nCalls>>

\* the scanned records at or above the threshold
ScannedAtThreshold(scan_results, minimum_sev_threshold) ==
  {v \in Range(FanOutAll(scan_results)) :
     CVESeverity[v.cvss_v3_severity] >= minimum_sev_threshold}

\* the records of the allowlist file a list with the threshold loads
Allowlisted(allowlist_path, minimum_sev_threshold) ==
  {w \in Range(Flatten(allowlist_path.content)) :
     CVESeverity[w.cvss_v3_severity] >= minimum_sev_threshold}

\* C20: test_ecr_enhanced_scan fails iff a scanned record at or above the
\* threshold of the image has no equivalent among the records of the
\* allowlist file at or above that threshold; without a file every such
\* record fails the image.
C20_FailsIffRecordNotAllowlisted ==
  (last.op = "enhanced_scan" /\ last.done) =>
    LET scanned == ScannedAtThreshold(last.scan_results, last.minimum_sev_threshold)
        allowed == Allowlisted(last.allowlist_path, last.minimum_sev_threshold)
        left == {v \in scanned :
                   \A w \in allowed : ~enhanced_are_vulnerabilities_equivalent(v, w)}
    IN  /\ last.outcome /= "passed" <=> left /= {}
        /\ ~last.allowlist_path.exists => (last.outcome /= "passed" <=> scanned /= {})
        /\ left /= {} => Range(Records(last.remaining_vulnerabilities)) = left

\* C20 witness: the test passed on a scan that found a record at or above
\* the threshold, because the allowlist file holds an equivalent record
C20_Witness ==
  /\ last.op = "enhanced_scan"
  /\ last.done
  /\ last.outcome = "passed"
  /\ last.allowlist_path.exists
  /\ ScannedAtThreshold(last.scan_results, last.minimum_sev_threshold) /= {}

\* ------------------------------------- the specification of the single calls
PendingCalls ==
  PendingOrderCalls \cup PendingEquivalentCalls \cup PendingSeverityCalls
    \cup PendingEnhancedScanCalls

InitCalls ==
  /\ heap = <<>>
  /\ file = NoFile
  /\ last \in PendingCalls
  /\ nCalls = 0

NextCalls ==
  \/ FillInTwoOrders
  \/ AreVulnerabilitiesEquivalent
  \/ NormalizeFinding
  \/ TestEcrEnhancedScan

SpecCalls == InitCalls /\ [][NextCalls]_vars

\* ------------------------------------------- the reconciliation workflow
\* A third specification: the three lists of one image, as the basic-scan
\* check hands them to conduct_failure_routine.  heap[1] is the
\* image_allowlist, heap[2] the ecr_image_vulnerability_list and heap[3] the
\* upgraded_image_vulnerability_list; all three have one threshold.

\* the allowlist of an image: the file loaded, or nothing when there is none
AllowLists(minimum_severity) ==
  {NewList("basic", minimum_severity)}
  \cup {construct_allowlist_from_file(NewList("basic", minimum_severity), file_allowlist) :
          file_allowlist \in BasicFiles}

\* the list of a basic scan of an image
ScanLists(minimum_severity) ==
  {construct_allowlist_from_ecr_scan_result(NewList("basic", minimum_severity), scan_result) :
     scan_result \in BasicScanResults}

\* get_apt_package_name
get_apt_package_name(ecr_package_name) ==
  CASE ecr_package_name = "cyrus-sasl2" -> "libsasl2-2"
    [] ecr_package_name = "glibc" -> "libc6"
    [] ecr_package_name = "libopenmpt" -> "libopenmpt-dev"
    [] ecr_package_name = "fribidi" -> "libfribidi-dev"
    [] OTHER -> ecr_package_name

\* the packages the apt-upgrade list of the image names before the routine
UpgradeLists == {{}, {"pkgB"}}

\* create_and_save_package_list_to_s3: the packages of the new file
unified_package_list(current_packages, new_packages) ==
  current_packages \cup {get_apt_package_name(new_package) : new_package \in new_packages}

\* the heap h and the id returned once a call on the object self returned r
ReturnedIn(h, self, r) ==
  CASE r.kind = "none" -> [heap |-> h, ret |-> 0]
    [] r.kind = "self" -> [heap |-> h, ret |-> self]
    [] r.kind = "new" -> [heap |-> Append(h, r.obj), ret |-> Len(h) + 1]

\* lines 689-696 of get_vulnerabilites_fixable_by_upgrade, given the ids of
\* the two differences (0 for None).  A list object is true in a
\* condition, whatever it holds.
fixable_by_either_difference(h, fixable_ecr_image_scan_vulnerabilites, fixable_allowlist_vulnerabilites) ==
  IF fixable_ecr_image_scan_vulnerabilites /= 0 /\ fixable_allowlist_vulnerabilites /= 0
  THEN ReturnedIn(h, fixable_ecr_image_scan_vulnerabilites,
                  Add(h[fixable_ecr_image_scan_vulnerabilites],
                      h[fixable_allowlist_vulnerabilites]))
  ELSE IF fixable_ecr_image_scan_vulnerabilites /= 0
  THEN [heap |-> h, ret |-> fixable_ecr_image_scan_vulnerabilites]
  ELSE IF fixable_allowlist_vulnerabilites /= 0
  THEN [heap |-> h, ret |-> fixable_allowlist_vulnerabilites]
  ELSE [heap |-> h, ret |-> 0]

\* lines 688-696, given what line 687 returned
fixable_after_first_difference(fixable_ecr, fixable_allowlist) ==
  fixable_by_either_difference(fixable_allowlist.heap, fixable_ecr.ret, fixable_allowlist.ret)

\* line 688, given what line 687 returned
fixable_allowlist_difference(fixable_ecr, image_allowlist, upgraded_image_vulnerability_list) ==
  ReturnedIn(fixable_ecr.heap, image_allowlist,
             Sub(fixable_ecr.heap[image_allowlist],
                 fixable_ecr.heap[upgraded_image_vulnerability_list]))

\* line 687
fixable_ecr_difference(h, ecr_image_vulnerability_list, upgraded_image_vulnerability_list) ==
  ReturnedIn(h, ecr_image_vulnerability_list,
             Sub(h[ecr_image_vulnerability_list], h[upgraded_image_vulnerability_list]))

\* lines 688-696, given what line 687 returned
fixable_after_ecr_difference(fixable_ecr, image_allowlist, upgraded_image_vulnerability_list) ==
  fixable_after_first_difference(
    fixable_ecr,
    fixable_allowlist_difference(fixable_ecr, image_allowlist, upgraded_image_vulnerability_list))

\* get_vulnerabilites_fixable_by_upgrade on the objects of the heap h: the
\* heap after the call and the id of the returned object, 0 for None
get_vulnerabilites_fixable_by_upgrade(h, image_allowlist, ecr_image_vulnerability_list, upgraded_image_vulnerability_list) ==
  fixable_after_ecr_difference(
    fixable_ecr_difference(h, ecr_image_vulnerability_list, upgraded_image_vulnerability_list),
    image_allowlist, upgraded_image_vulnerability_list)

\* the vulnerability_list of the object a call returned, {} for None
ListOrEmpty(h, ret) == IF ret = 0 THEN <<>> ELSE h[ret].vulnerability_list

\* what conduct_failure_routine returns when save_vulnerability_list raised
\* its ValueError: no summary, and the files written until then
NoSummary(h, saved) ==
  [heap |-> h, raised |-> TRUE, saved |-> saved,
   fixable_vulnerabilities |-> <<>>, non_fixable_vulnerabilities |-> <<>>,
   package_list |-> {}]

\* lines 726-761 of conduct_failure_routine: the summary, given the heap
\* and the ids of the two objects computed before (0 for None)
failure_routine_summary(h, vulnerabilities_fixable_by_upgrade, newly_found_non_fixable_vulnerabilites, current_packages, saved) ==
  [heap |-> h, raised |-> FALSE, saved |-> saved,
   fixable_vulnerabilities |-> ListOrEmpty(h, vulnerabilities_fixable_by_upgrade),
   non_fixable_vulnerabilities |-> ListOrEmpty(h, newly_found_non_fixable_vulnerabilites),
   package_list |->
     unified_package_list(current_packages,
                          Keys(ListOrEmpty(h, vulnerabilities_fixable_by_upgrade)))]

\* line 725 of conduct_failure_routine, given what line 722 returned
newly_found_non_fixable(fixable, image_allowlist, upgraded_image_vulnerability_list) ==
  ReturnedIn(fixable.heap, upgraded_image_vulnerability_list,
             Sub(fixable.heap[upgraded_image_vulnerability_list], fixable.heap[image_allowlist]))

\* lines 726-761, given what lines 722 and 725 returned
failure_routine_after_differences(fixable, non_fixable, current_packages, saved) ==
  failure_routine_summary(non_fixable.heap, fixable.ret, non_fixable.ret, current_packages, saved)

\* lines 722-761 of conduct_failure_routine, given what line 722 returned
failure_routine_after_saves(fixable, image_allowlist, upgraded_image_vulnerability_list, current_packages, saved) ==
  failure_routine_after_differences(
    fixable,
    newly_found_non_fixable(fixable, image_allowlist, upgraded_image_vulnerability_list),
    current_packages, saved)

\* conduct_failure_routine on the objects of the heap h.  Both lists are
\* saved first, and save_vulnerability_list raises a ValueError on an empty
\* dict: `raised` tells that the routine ended with it, `saved` holds the
\* files written until then.
conduct_failure_routine(h, image_allowlist, ecr_image_vulnerability_list, upgraded_image_vulnerability_list, current_packages) ==
  IF h[upgraded_image_vulnerability_list].vulnerability_list = <<>>
  THEN NoSummary(h, <<>>)
  ELSE IF h[ecr_image_vulnerability_list].vulnerability_list = <<>>
  THEN NoSummary(h, <<get_sorted_vulnerability_list(h[upgraded_image_vulnerability_list])>>)
  ELSE failure_routine_after_saves(
         get_vulnerabilites_fixable_by_upgrade(
           h, image_allowlist, ecr_image_vulnerability_list, upgraded_image_vulnerability_list),
         image_allowlist, upgraded_image_vulnerability_list, current_packages,
         <<get_sorted_vulnerability_list(h[upgraded_image_vulnerability_list]),
           get_sorted_vulnerability_list(h[ecr_image_vulnerability_list])>>)

\* the three lists of one image
InitRoutine ==
  /\ \E minimum_severity \in Thresholds :
       \E image_allowlist \in AllowLists(minimum_severity),
          ecr_image_vulnerability_list \in ScanLists(minimum_severity),
          upgraded_image_vulnerability_list \in ScanLists(minimum_severity) :
         heap = <<image_allowlist, ecr_image_vulnerability_list,
                  upgraded_image_vulnerability_list>>
  /\ file = NoFile
  /\ last = NoCall
  /\ nCalls = 0

\* the state after get_vulnerabilites_fixable_by_upgrade returned out
FixableReturned(out) ==
  /\ heap' = out.heap
  /\ last' = [op |-> "fixable", ret |-> out.ret,
              R |-> IF out.ret = 0 THEN None ELSE out.heap[out.ret],
              image_allowlist |-> heap[1],
              ecr_image_vulnerability_list |-> heap[2],
              upgraded_image_vulnerability_list |-> heap[3]]
  /\ nCalls' = nCalls + 1
  /\ UNCHANGED file

\* get_vulnerabilites_fixable_by_upgrade(heap[1], heap[2], heap[3])
GetVulnerabilitiesFixableByUpgrade ==
  /\ nCalls < MaxCalls
  /\ FixableReturned(get_vulnerabilites_fixable_by_upgrade(heap, 1, 2, 3))

\* the state after conduct_failure_routine ended with out; the file of the
\* model is the allowlist the routine proposes, the saved upgraded list
RoutineEnded(out) ==
  /\ heap' = out.heap
  /\ file' = IF out.saved = <<>> THEN file
             ELSE [fmt |-> heap[3].fmt, content |-> out.saved[1]]
  /\ last' = [op |-> "routine", raised |-> out.raised, saved |-> out.saved,
              fixable_vulnerabilities |-> out.fixable_vulnerabilities,
              non_fixable_vulnerabilities |-> out.non_fixable_vulnerabilities,
              package_list |-> out.package_list,
              image_allowlist |-> heap[1],
              ecr_image_vulnerability_list |-> heap[2],
              upgraded_image_vulnerability_list |-> heap[3]]
  /\ nCalls' = nCalls + 1

\* conduct_failure_routine(image, heap[1], heap[2], heap[3], bucket)
ConductFailureRoutine(current_packages) ==
  /\ nCalls < MaxCalls
  /\ RoutineEnded(conduct_failure_routine(heap, 1, 2, 3, current_packages))

NextRoutine ==
  \/ GetVulnerabilitiesFixableByUpgrade
  \/ \E current_packages \in UpgradeLists : ConductFailureRoutine(current_packages)

SpecRoutine == InitRoutine /\ [][NextRoutine]_vars

\* the distinct records of the two differences with the upgraded list
FixableRecords(image_allowlist, current, upgraded) ==
  Unmatched(current, upgraded) \cup Unmatched(image_allowlist, upgraded)

\* C16: get_vulnerabilites_fixable_by_upgrade returns a list that holds,
\* once each, the records of the current scan or of the allowlist without
\* an equivalent in the upgraded scan, and None exactly when there is none.
C16_FixableIsUnionOfDifferences ==
  last.op = "fixable" =>
    LET want == FixableRecords(last.image_allowlist, last.ecr_image_vulnerability_list,
                               last.upgraded_image_vulnerability_list)
    IN  /\ last.ret = 0 <=> want = {}
        /\ last.ret /= 0 =>
             /\ Range(Records(last.R)) = want
             /\ \A v \in want : Count(Records(last.R), v) = 1

\* every record of the dict is stored under its package name
GroupedByPackage(d) ==
  \A e \in Range(d) : \A v \in Range(e.vulns) :
    get_vulnerability_package_name("basic", v) = e.key

\* C17: the non-fixable partition of a summary holds exactly the records of
\* the upgraded scan without an equivalent in the allowlist, each under its
\* package, and is the empty dict when there is none; with an allowlist
\* that holds no record it holds every record of the upgraded scan.
C17_NonFixableIsUpgradedMinusAllowlist ==
  (last.op = "routine" /\ ~last.raised) =>
    LET want == Unmatched(last.upgraded_image_vulnerability_list, last.image_allowlist)
        partition == last.non_fixable_vulnerabilities
    IN  /\ Range(Flatten(partition)) = want
        /\ GroupedByPackage(partition)
        /\ want = {} => partition = <<>>
        /\ Records(last.image_allowlist) = <<>> =>
             Range(Flatten(partition)) = Range(Records(last.upgraded_image_vulnerability_list))

\* C18: with an upgraded scan that holds nothing and a current scan that
\* holds a record, conduct_failure_routine returns a summary; its fixable
\* partition holds the records of the current scan and of the allowlist,
\* its non-fixable partition is empty.
C18_EmptyUpgradedListCompletes ==
  (last.op = "routine"
     /\ Records(last.upgraded_image_vulnerability_list) = <<>>
     /\ Records(last.ecr_image_vulnerability_list) /= <<>>) =>
    /\ ~last.raised
    /\ Range(Flatten(last.fixable_vulnerabilities))
         = Range(Records(last.ecr_image_vulnerability_list))
             \cup Range(Records(last.image_allowlist))
    /\ last.non_fixable_vulnerabilities = <<>>

\* C19: the routine reports a non-empty fixable partition exactly when a
\* record of the current scan or of the allowlist has no equivalent in the
\* upgraded scan, and a non-empty non-fixable partition exactly when a
\* record of the upgraded scan has none in the allowlist; when the three
\* differences are empty it ends with both partitions empty.
C19_FailureIffRecordLeft ==
  last.op = "routine" =>
    /\ ~last.raised
    /\ last.fixable_vulnerabilities /= <<>>
         <=> FixableRecords(last.image_allowlist, last.ecr_image_vulnerability_list,
                            last.upgraded_image_vulnerability_list) /= {}
    /\ last.non_fixable_vulnerabilities /= <<>>
         <=> Unmatched(last.upgraded_image_vulnerability_list, last.image_allowlist) /= {}

\* --------------------------------------- construction from unchecked input
\* A fourth specification: one list is filled from findings or from a file
\* whose shape nobody checked.  A construction either returns or raises;
\* when it raises, the dict keeps what was stored before.

HasKey(dictionary, key) == key \in DOMAIN dictionary

Raised(exception, vulnerability_list) ==
  [raised |-> exception, vulnerability_list |-> vulnerability_list]

Returns(vulnerability_list) == Raised("none", vulnerability_list)

\* basic findings that lack name, severity, attributes or the package_name
\* attribute, and one with a severity string outside CVESeverity
m_noname == [severity |-> "HIGH", attributes |-> b1.attributes]
m_noseverity == [name |-> "CVE-1", attributes |-> b1.attributes]
m_noattributes == [name |-> "CVE-1", severity |-> "HIGH"]
m_nopackage ==
  [name |-> "CVE-1", severity |-> "HIGH",
   attributes |-> <<[key |-> "package_version", value |-> "1.0"]>>]
m_badseverity == BasicVuln("CVE-2", "UNTRIAGED", "pkgB", "1.0", FALSE)

\* lines 354-355 of the basic construction, the key being created
basic_store_under_key(with_key, package_name, minimum_severity, vulnerability) ==
  IF ~HasKey(vulnerability, "severity") THEN Raised("KeyError", with_key)
  ELSE IF vulnerability.severity \notin DOMAIN CVESeverity THEN Raised("KeyError", with_key)
  ELSE IF CVESeverity[vulnerability.severity] >= minimum_severity
  THEN Returns(AppendTo(with_key, package_name, vulnerability))
  ELSE Returns(with_key)

\* lines 351-355 of the basic construction for one finding
basic_store(vulnerability_list, minimum_severity, vulnerability) ==
  IF ~HasKey(vulnerability, "attributes") THEN Raised("KeyError", vulnerability_list)
  ELSE basic_store_under_key(
         SetDefault(vulnerability_list, basic_package_name(vulnerability.attributes)),
         basic_package_name(vulnerability.attributes), minimum_severity, vulnerability)

\* lines 337-340 of the basic construct_allowlist_from_file for one record
basic_store_from_file(vulnerability_list, minimum_severity, package_name, vulnerability) ==
  IF ~HasKey(vulnerability, "severity") THEN Raised("KeyError", vulnerability_list)
  ELSE IF vulnerability.severity \notin DOMAIN CVESeverity
  THEN Raised("KeyError", vulnerability_list)
  ELSE IF CVESeverity[vulnerability.severity] >= minimum_severity
  THEN Returns(AppendTo(SetDefault(vulnerability_list, package_name), package_name, vulnerability))
  ELSE Returns(vulnerability_list)

\* lines 430-435 of the enhanced construction for one record
enhanced_store(vulnerability_list, minimum_severity, vulnerability) ==
  IF ~HasKey(vulnerability, "package_name") THEN Raised("KeyError", vulnerability_list)
  ELSE IF ~HasKey(vulnerability, "cvss_v3_severity") THEN Raised("KeyError", vulnerability_list)
  ELSE IF vulnerability.cvss_v3_severity \notin DOMAIN CVESeverity
  THEN Raised("KeyError", vulnerability_list)
  ELSE IF CVESeverity[vulnerability.cvss_v3_severity] < minimum_severity
  THEN Returns(vulnerability_list)
  ELSE Returns(AppendTo(SetDefault(vulnerability_list, vulnerability.package_name),
                        vulnerability.package_name, vulnerability))

\* the keyword arguments AllowListFormatVulnerability.__init__ requires
RequiredArguments ==
  {"description", "packageVulnerabilityDetails", "remediation", "severity", "status", "title"}

\* lines 447-456 of the enhanced construct_allowlist_from_ecr_scan_result
\* for one finding and one of its vulnerable packages
enhanced_store_scanned(vulnerability_list, minimum_severity, finding, vulnerable_package) ==
  IF ~(RequiredArguments \subseteq DOMAIN finding) THEN Raised("TypeError", vulnerability_list)
  ELSE enhanced_store(vulnerability_list, minimum_severity,
                      AllowListFormatVulnerability(finding, vulnerable_package))

\* one thing to store: a record, a record under the key of its file, or a
\* finding with one of its vulnerable packages
store(fmt, how, vulnerability_list, minimum_severity, item) ==
  IF how = "scan" /\ fmt = "enhanced"
  THEN enhanced_store_scanned(vulnerability_list, minimum_severity, item.finding, item.package)
  ELSE IF how = "file" /\ fmt = "basic"
  THEN basic_store_from_file(vulnerability_list, minimum_severity, item.key, item.vulnerability)
  ELSE IF fmt = "basic"
  THEN basic_store(vulnerability_list, minimum_severity, item.vulnerability)
  ELSE enhanced_store(vulnerability_list, minimum_severity, item.vulnerability)

\* the loop of a construction: it stops at the first item that raises
RECURSIVE store_all(_, _, _, _, _)
store_all(fmt, how, stored, minimum_severity, items) ==
  IF items = <<>> \/ stored.raised /= "none" THEN stored
  ELSE store_all(fmt, how,
                 store(fmt, how, stored.vulnerability_list, minimum_severity, Head(items)),
                 minimum_severity, Tail(items))

\* the items the loops of a construction visit, in their order
RECURSIVE FileItems(_)
FileItems(file_allowlist) ==
  IF file_allowlist = <<>> THEN <<>>
  ELSE [i \in 1..Len(Head(file_allowlist).vulns) |->
          [key |-> Head(file_allowlist).key, vulnerability |-> Head(file_allowlist).vulns[i]]]
       \o FileItems(Tail(file_allowlist))

\* the items of a scan when only the first vulnerable package of a finding
\* is looked at
RECURSIVE ScanItemsFirstPackageOnly(_)
ScanItemsFirstPackageOnly(ecr_format_vulnerability_list) ==
  IF ecr_format_vulnerability_list = <<>> THEN <<>>
  ELSE LET finding == Head(ecr_format_vulnerability_list)
           packages == finding.packageVulnerabilityDetails.vulnerablePackages
       IN  [i \in 1..Min(1, Len(packages)) |-> [finding |-> finding, package |-> packages[i]]]
           \o ScanItemsFirstPackageOnly(Tail(ecr_format_vulnerability_list))

\* the findings of a scan, one item per vulnerable package (lines 445-446)
RECURSIVE ScanItems(_)
ScanItems(ecr_format_vulnerability_list) ==
  IF ecr_format_vulnerability_list = <<>> THEN <<>>
  ELSE LET finding == Head(ecr_format_vulnerability_list)
           packages == finding.packageVulnerabilityDetails.vulnerablePackages
       IN  [i \in 1..Len(packages) |-> [finding |-> finding, package |-> packages[i]]]
           \o ScanItems(Tail(ecr_format_vulnerability_list))

Items(fmt, how, input) ==
  IF how = "file" THEN FileItems(input)
  ELSE IF fmt = "enhanced" /\ how = "scan" THEN ScanItems(input)
  ELSE [i \in 1..Len(input) |-> [vulnerability |-> input[i]]]

\* line 457: the enhanced scan construction ends with the sorted view
sorted_when_returned(self, how, stored) ==
  IF self.fmt = "enhanced" /\ how = "scan" /\ stored.raised = "none"
  THEN Returns(get_sorted_vulnerability_list(
                 [self EXCEPT !.vulnerability_list = stored.vulnerability_list]))
  ELSE stored

\* a construction of either subclass, from a scan result ("scan"), from
\* allowlist-format records ("records") or from a file ("file")
construct_or_raise(self, how, input) ==
  sorted_when_returned(
    self, how,
    store_all(self.fmt, how, Returns(self.vulnerability_list), self.minimum_severity,
              Items(self.fmt, how, input)))

\* an enhanced finding without vulnerable packages, and one without severity
f0 == RawFinding("CVE-1", <<Cvss("3.1", 95)>>, <<>>, "HIGH")
f_noseverity == [k \in DOMAIN f4 \ {"severity"} |-> f4[k]]

\* an allowlist record whose cvss_v3_severity is outside CVESeverity
e_badseverity == [e1 EXCEPT !.cvss_v3_severity = "UNTRIAGED"]

Malformed == {m_noname, m_noseverity, m_noattributes, m_nopackage, m_badseverity}

\* What a scanner or a file hands to a construction nobody validated.
\* Vulnerable packages of one finding are pairwise distinct, as a scanner
\* reports them.
BasicUncheckedScans ==
  {<<m>> : m \in Malformed} \cup {<<b3, m>> : m \in Malformed}
    \cup {<<m, b3>> : m \in Malformed} \cup {<<b1, b2>>, <<b3, b1>>}

BasicUncheckedFiles ==
  {Dict1("pkgA", <<b1, m_badseverity>>), Dict1("pkgA", <<m_noname, b2>>),
   Dict1("pkgA", <<b1v, b2>>)}

EnhancedUncheckedScans ==
  {<<>>, <<f6>>, <<f1, f6>>, <<f2>>, <<f2, f3>>, <<f5>>, <<f7>>, <<f8>>, <<f8, f4>>,
   <<f0>>, <<f0, f4>>, <<f1, f1>>, <<f_noseverity>>, <<f1, f_noseverity>>}

EnhancedUncheckedFiles ==
  {Dict1("pkgA", <<e1, e_badseverity>>), Dict1("pkgA", <<e1, e6>>),
   Dict1("pkgA", <<e1v, e2a>>)}

ConstructCall(fmt, how, minimum_severity, input) ==
  [op |-> "construct", done |-> FALSE, fmt |-> fmt, how |-> how,
   minimum_severity |-> minimum_severity, input |-> input, raised |-> "none", R |-> None]

\* the constructions of a new list from unchecked input
PendingConstructCalls ==
  {ConstructCall("basic", "scan", minimum_severity, input) :
     minimum_severity \in Thresholds, input \in BasicUncheckedScans}
  \cup {ConstructCall("basic", "file", minimum_severity, input) :
          minimum_severity \in Thresholds, input \in BasicUncheckedFiles}
  \cup {ConstructCall("enhanced", "scan", minimum_severity, input) :
          minimum_severity \in Thresholds, input \in EnhancedUncheckedScans}
  \cup {ConstructCall("enhanced", "file", minimum_severity, input) :
          minimum_severity \in Thresholds, input \in EnhancedUncheckedFiles}

\* the state after the construction ended with stored
Constructed(stored) ==
  /\ heap' = <<[NewList(last.fmt, last.minimum_severity) EXCEPT
                  !.vulnerability_list = stored.vulnerability_list]>>
  /\ last' = [last EXCEPT !.done = TRUE, !.raised = stored.raised, !.R = heap'[1]]
  /\ UNCHANGED <<file, nCalls>>

\* a new list is created and one of its constructions is called
ConstructUnchecked ==
  /\ last.op = "construct"
  /\ ~last.done
  /\ Constructed(construct_or_raise(NewList(last.fmt, last.minimum_severity),
                                    last.how, last.input))

\* the basic finding lacks one of the keys a finding has to have
LacksRequiredKey(vulnerability) ==
  \/ ~HasKey(vulnerability, "name")
  \/ ~HasKey(vulnerability, "severity")
  \/ ~HasKey(vulnerability, "attributes")
  \/ basic_package_name(vulnerability.attributes) = "None"

\* C21: a basic construction from findings one of which lacks name,
\* severity, attributes or the package_name attribute raises an error and
\* does not store that finding.
C21_MissingKeyRaises ==
  (last.op = "construct" /\ last.done /\ last.fmt = "basic" /\ last.how = "scan"
     /\ \E v \in Range(last.input) : LacksRequiredKey(v))
    => /\ last.raised /= "none"
       /\ \A v \in Range(Records(last.R)) : ~LacksRequiredKey(v)

\* the severity strings an item carries that CVESeverity does not know
UnrecognizedSeverities(fmt, how, item) ==
  IF fmt = "enhanced" /\ how = "scan"
  THEN IF HasKey(item.finding, "severity") THEN {item.finding.severity} \ DOMAIN CVESeverity
       ELSE {}
  ELSE IF fmt = "basic"
  THEN IF HasKey(item.vulnerability, "severity")
       THEN {item.vulnerability.severity} \ DOMAIN CVESeverity
       ELSE {}
  ELSE {item.vulnerability.severity, item.vulnerability.cvss_v3_severity} \ DOMAIN CVESeverity

StoredSeverities(fmt, vulnerability) ==
  IF fmt = "basic"
  THEN IF HasKey(vulnerability, "severity") THEN {vulnerability.severity} ELSE {}
  ELSE {vulnerability.severity, vulnerability.cvss_v3_severity}

\* C22: a construction, from a scan result or from a file and in either
\* format, that meets a record whose severity string is not in CVESeverity
\* raises a KeyError, and no stored record carries such a string.
C22_UnknownSeverityRaises ==
  (last.op = "construct" /\ last.done
     /\ \E item \in Range(Items(last.fmt, last.how, last.input)) :
          UnrecognizedSeverities(last.fmt, last.how, item) /= {})
    => /\ last.raised = "KeyError"
       /\ \A v \in Range(Records(last.R)) :
            StoredSeverities(last.fmt, v) \subseteq DOMAIN CVESeverity

\* the records the fan-out of a finding gives
DerivedFrom(finding) == Range(FanOut(finding))

BasicSortInputs == {<<b3, b2, b1, b1>>, <<b2, b1v, b1, b1x>>, <<b3, b1, b3>>}

EnhancedSortInputs == {<<e2b, e4, e1v, e1, e1>>, <<e4, e3, e2a>>, <<e8b, e6, e8a, e1>>}

SortInputs(fmt) == IF fmt = "basic" THEN BasicSortInputs ELSE EnhancedSortInputs

\* the lists whose sorted view is taken
SortedLists(fmt) ==
  FilledLists(fmt)
  \cup {construct_allowlist_from_allowlist_formatted_vulnerabilities(
          NewList(fmt, minimum_severity), records) :
          minimum_severity \in Thresholds, records \in SortInputs(fmt)}

PendingSortedCalls ==
  {[op |-> "sorted", done |-> FALSE, self |-> self, view |-> <<>>] :
     self \in SortedLists("basic") \cup SortedLists("enhanced")}

\* heap[1].get_sorted_vulnerability_list(): the view is built on a deep copy
GetSortedVulnerabilityList ==
  /\ last.op = "sorted"
  /\ ~last.done
  /\ last' = [last EXCEPT !.done = TRUE, !.view = get_sorted_vulnerability_list(heap[1])]
  /\ UNCHANGED <<heap, file, nCalls>>

\* C24: the sorted view has its package keys in ascending order and every
\* inner list in non-decreasing order of name and free of equal records;
\* it holds under every key exactly the distinct records the list holds
\* under that key; the list itself is as it was.
C24_SortedView ==
  (last.op = "sorted" /\ last.done) =>
    LET view == last.view
        own == last.self.vulnerability_list
    IN  /\ \A i \in 1..Len(view), j \in 1..Len(view) :
             i < j => StrRank[view[i].key] < StrRank[view[j].key]
        /\ \A e \in Range(view) :
             /\ \A i \in 1..Len(e.vulns), j \in 1..Len(e.vulns) :
                  i < j => /\ StrRank[e.vulns[i].name] <= StrRank[e.vulns[j].name]
                           /\ e.vulns[i] /= e.vulns[j]
             /\ e.key \in Keys(own)
             /\ Range(e.vulns) = Range(Get(own, e.key))
        /\ Keys(view) = Keys(own)
        /\ heap[1] = last.self

\* C24 witness: the view of a list that stores its keys in descending
\* order, a record twice and names out of order
C24_Witness ==
  /\ last.op = "sorted"
  /\ last.done
  /\ LET own == last.self.vulnerability_list
     IN  /\ Len(own) = 2
         /\ StrRank[own[1].key] > StrRank[own[2].key]
         /\ \E e \in Range(own) :
              /\ Cardinality(Range(e.vulns)) < Len(e.vulns)
              /\ \E i \in 1..Len(e.vulns), j \in 1..Len(e.vulns) :
                   i < j /\ StrRank[e.vulns[i].name] > StrRank[e.vulns[j].name]
  /\ last.view /= last.self.vulnerability_list

\* the cvss lists of a finding: up to two entries of the three versions
CvssEntries ==
  {Cvss(version, baseScore) : version \in {"3.1", "3.0", "2.0"}, baseScore \in {0, 40, 95}}

CvssLists == {<<>>} \cup {<<c>> : c \in CvssEntries} \cup (CvssEntries \X CvssEntries)

\* a finding of one package with the cvss list and the flat severity string
CvssFinding(cvss, severity) ==
  RawFinding("CVE-1", cvss, <<RawPackage("pkgA", "1.0")>>, severity)

PendingCvssCalls ==
  {[op |-> "cvss", done |-> FALSE, cvss |-> cvss, severity |-> severity,
    minimum_severity |-> minimum_severity, vulnerability |-> None, R |-> None] :
     cvss \in CvssLists, severity \in {"LOW", "CRITICAL"}, minimum_severity \in Thresholds}

\* the state after the finding was normalised and the construction ended
CvssConstructed(vulnerability, stored) ==
  /\ heap' = <<[NewList("enhanced", last.minimum_severity) EXCEPT
                  !.vulnerability_list = stored.vulnerability_list]>>
  /\ last' = [last EXCEPT !.done = TRUE, !.vulnerability = vulnerability, !.R = heap'[1]]
  /\ UNCHANGED <<file, nCalls>>

\* a new enhanced list is filled from the scan result [finding]
ConstructFromCvssFinding ==
  /\ last.op = "cvss"
  /\ ~last.done
  /\ CvssConstructed(
       AllowListFormatVulnerability(CvssFinding(last.cvss, last.severity),
                                    RawPackage("pkgA", "1.0")),
       construct_or_raise(NewList("enhanced", last.minimum_severity), "scan",
                          <<CvssFinding(last.cvss, last.severity)>>))

\* the positions of the entries of the version in the cvss list
EntriesOf(cvss, version) == {i \in 1..Len(cvss) : cvss[i].version = version}

\* the base score of the first entry of the version, 0.0 without one
FirstScore(cvss, version) ==
  IF EntriesOf(cvss, version) = {} THEN 0
  ELSE cvss[CHOOSE i \in EntriesOf(cvss, version) :
              \A j \in EntriesOf(cvss, version) : i <= j].baseScore

\* the severity band of a score in tenths
Band(score) ==
  CASE score >= 90 -> "CRITICAL"
    [] score >= 70 /\ score < 90 -> "HIGH"
    [] score >= 40 /\ score < 70 -> "MEDIUM"
    [] score >= 1 /\ score < 40 -> "LOW"
    [] OTHER -> "UNDEFINED"

\* C25: the cvss_v3_severity of an enhanced finding, and so whether a list
\* keeps it, is the band of the base score of its first v3.1 cvss entry;
\* without a v3.1 entry the score is 0.0 and the severity UNDEFINED whatever
\* the v3.0 score, the v2.0 score and the flat severity are; the v3.0 and
\* v2.0 scores are carried on the record.
C25_SeverityFromFirstV31 ==
  (last.op = "cvss" /\ last.done) =>
    LET v == last.vulnerability
    IN  /\ v.cvss_v3_score = FirstScore(last.cvss, "3.1")
        /\ v.cvss_v3_severity = Band(FirstScore(last.cvss, "3.1"))
        /\ Records(last.R) /= <<>>
             <=> CVESeverity[Band(FirstScore(last.cvss, "3.1"))] >= last.minimum_severity
        /\ Records(last.R) /= <<>> => Records(last.R) = <<v>>
        /\ EntriesOf(last.cvss, "3.1") = {} =>
             /\ v.cvss_v3_score = 0
             /\ v.cvss_v3_severity = "UNDEFINED"
             /\ Records(last.R) = <<>>
        /\ v.cvss_v30_score = FirstScore(last.cvss, "3.0")
        /\ v.cvss_v2_score = FirstScore(last.cvss, "2.0")
        /\ v.severity = last.severity

\* C25 witness: a finding without a v3.1 entry, with a v3.0 score of 9.5 and
\* a flat severity CRITICAL, was normalised to UNDEFINED and not kept
C25_Witness ==
  /\ last.op = "cvss"
  /\ last.done
  /\ EntriesOf(last.cvss, "3.1") = {}
  /\ FirstScore(last.cvss, "3.0") = 95
  /\ last.severity = "CRITICAL"
  /\ last.vulnerability.cvss_v3_severity = "UNDEFINED"
  /\ last.vulnerability.cvss_v30_score = 95
  /\ Records(last.R) = <<>>

\* ------------------------------ the specification of the unchecked inputs
PendingUncheckedCalls ==
  PendingConstructCalls \cup PendingSortedCalls \cup PendingCvssCalls

\* the list whose view is taken exists before the call; a construction
\* creates its list
InitUnchecked ==
  /\ last \in PendingUncheckedCalls
  /\ heap = IF last.op = "sorted" THEN <<last.self>> ELSE <<>>
  /\ file = NoFile
  /\ nCalls = 0

NextUnchecked ==
  \/ ConstructUnchecked
  \/ GetSortedVulnerabilityList
  \/ ConstructFromCvssFinding

SpecUnchecked == InitUnchecked /\ [][NextUnchecked]_vars

\* ------------------------------------------------------------- run_scan
\* A fifth specification: one call of run_scan.  `last` holds the call: its
\* position, its local scan_status and the seconds time() has advanced
\* since start_time was read.  The calls to ECR and sleep take time.

ScanWindow == 600     \* seconds the loop of run_scan keeps polling
SleepSeconds == 1     \* the sleep between two polls
MaxCallSeconds == 2   \* the longest a call to ECR takes in the model

\* what get_ecr_image_scan_status reports: no status yet, the three
\* statuses run_scan names, and another one
ScanStatuses == {"None", "IN_PROGRESS", "COMPLETE", "FAILED", "UNSUPPORTED_IMAGE"}

\* start_ecr_image_scan returns at once, after a second, or after the
\* window is over
StartSeconds == {0, 1, ScanWindow + 1}

\* line 795 with only the first of its two conditions
scan_failed_only_when_FAILED(scan_status) ==
  scan_status = "FAILED"

\* line 795: the status is FAILED or none of None, IN_PROGRESS, COMPLETE
scan_failed(scan_status) ==
  scan_status = "FAILED" \/ scan_status \notin {"None", "IN_PROGRESS", "COMPLETE"}

\* lines 790-791
InitScan ==
  /\ heap = <<>>
  /\ file = NoFile
  /\ last = [op |-> "run_scan", pc |-> "start", scan_status |-> "None", now |-> 0,
             outcome |-> "running"]
  /\ nCalls = 0

\* line 792: ecr_utils.start_ecr_image_scan(ecr_client, image)
StartEcrImageScan(seconds) ==
  /\ last.op = "run_scan"
  /\ last.pc = "start"
  /\ last' = [last EXCEPT !.pc = "while", !.now = @ + seconds]
  /\ UNCHANGED <<heap, file, nCalls>>

\* line 793: while (time() - start_time) <= 600
WhileInWindow ==
  /\ last.op = "run_scan"
  /\ last.pc = "while"
  /\ last' = [last EXCEPT !.pc = IF last.now <= ScanWindow THEN "poll" ELSE "exit"]
  /\ UNCHANGED <<heap, file, nCalls>>

\* lines 794-798: one poll, the raise on a failed scan, the break on COMPLETE
GetEcrImageScanStatus(scan_status, seconds) ==
  /\ last.op = "run_scan"
  /\ last.pc = "poll"
  /\ last' = [last EXCEPT
                !.scan_status = scan_status,
                !.now = @ + seconds,
                !.pc = IF scan_failed(scan_status) THEN "done"
                       ELSE IF scan_status = "COMPLETE" THEN "exit"
                       ELSE "sleep",
                !.outcome = IF scan_failed(scan_status) THEN "ECRScanFailureException"
                            ELSE @]
  /\ UNCHANGED <<heap, file, nCalls>>

\* line 799: sleep(1)
Sleep(seconds) ==
  /\ last.op = "run_scan"
  /\ last.pc = "sleep"
  /\ last' = [last EXCEPT !.pc = "while", !.now = @ + seconds]
  /\ UNCHANGED <<heap, file, nCalls>>

\* lines 800-801: the TimeoutError unless the scan is COMPLETE
AfterLoop ==
  /\ last.op = "run_scan"
  /\ last.pc = "exit"
  /\ last' = [last EXCEPT
                !.pc = "done",
                !.outcome = IF last.scan_status /= "COMPLETE" THEN "TimeoutError"
                            ELSE "returned"]
  /\ UNCHANGED <<heap, file, nCalls>>

NextScan ==
  \/ \E seconds \in StartSeconds : StartEcrImageScan(seconds)
  \/ WhileInWindow
  \/ \E scan_status \in ScanStatuses, seconds \in 0..MaxCallSeconds :
       GetEcrImageScanStatus(scan_status, seconds)
  \/ \E seconds \in SleepSeconds..(SleepSeconds + 1) : Sleep(seconds)
  \/ AfterLoop

\* run_scan is sequential code: its next statement is executed, every call
\* it makes returns, and a sleep takes at least its second
SpecScan == InitScan /\ [][NextScan]_vars /\ WF_vars(NextScan)

\* a status that ends the polling
EndsPolling(scan_status) == scan_status \notin {"None", "IN_PROGRESS"}

\* C26: run_scan terminates, in one of three ways: it returns only after
\* a poll reported COMPLETE; it raises ECRScanFailureException at the first
\* poll that reports FAILED or a status other than None, IN_PROGRESS and
\* COMPLETE; it raises TimeoutError when the 600 seconds are over without a
\* COMPLETE status.  No poll follows a COMPLETE or failing status.
C26_RunScanEndsInOneOfThreeWays ==
  /\ <>(last.pc = "done")
  /\ [](last.pc = "done" <=> last.outcome /= "running")
  /\ [](last.outcome \in {"running", "returned", "ECRScanFailureException", "TimeoutError"})
  /\ [](last.outcome = "returned" => last.scan_status = "COMPLETE")
  /\ [](last.outcome = "ECRScanFailureException" =>
          last.scan_status \in ScanStatuses \ {"None", "IN_PROGRESS", "COMPLETE"})
  /\ [](last.outcome = "TimeoutError" =>
          /\ last.now > ScanWindow
          /\ last.scan_status \in {"None", "IN_PROGRESS"})
  /\ [][/\ last.pc = "poll" => ~EndsPolling(last.scan_status)
        /\ (last.pc = "poll"
              /\ last'.scan_status \in ScanStatuses \ {"None", "IN_PROGRESS", "COMPLETE"})
             => (last'.pc = "done" /\ last'.outcome = "ECRScanFailureException")
        /\ last.scan_status /= last'.scan_status => last.pc = "poll"]_vars

\* C26 witness: run_scan raised TimeoutError after it had polled and slept
\* for the whole window, the scan still IN_PROGRESS
C26_Witness ==
  /\ last.op = "run_scan"
  /\ last.pc = "done"
  /\ last.outcome = "TimeoutError"
  /\ last.scan_status = "IN_PROGRESS"
  /\ last.now > ScanWindow

\* -------------------------------------------- run_upgrade_on_image_and_push
\* A sixth specification: one call of run_upgrade_on_image_and_push.  `last`
\* holds the call: its position, attempt_count, apt_ran_successfully_flag,
\* the failed statuses it logged, and whether the upgraded image was
\* committed and pushed.  A ctx.run without warn=True raises UnexpectedExit
\* when its command fails.

max_attempts == 10

\* the exit statuses of a failed apt-get update && apt-get upgrade
FailedStatuses == {1, 100}

\* the loop going on for one attempt more
attempts_exhausted_one_later(attempt_count) ==
  attempt_count = max_attempts + 1

\* line 583: if attempt_count == max_attempts
attempts_exhausted(attempt_count) ==
  attempt_count = max_attempts

\* lines 555-562
InitUpgrade ==
  /\ heap = <<>>
  /\ file = NoFile
  /\ last = [op |-> "run_upgrade", pc |-> "docker_run", attempt_count |-> 0,
             apt_ran_successfully_flag |-> FALSE, log |-> <<>>,
             committed |-> FALSE, removed |-> FALSE, pushed |-> FALSE,
             outcome |-> "running"]
  /\ nCalls = 0

\* a ctx.run of a docker command: the next position, or UnexpectedExit
CtxRun(ok, next) ==
  IF ok THEN [last EXCEPT !.pc = next]
  ELSE [last EXCEPT !.pc = "done", !.outcome = "UnexpectedExit"]

\* line 558: docker run -id --entrypoint='/bin/bash' image
DockerRun(ok) ==
  /\ last.op = "run_upgrade"
  /\ last.pc = "docker_run"
  /\ last' = CtxRun(ok, "apt")
  /\ UNCHANGED <<heap, file, nCalls>>

\* lines 570-584 after a failed attempt: the log line, the sleep, the test
\* of attempt_count
AptFailed(exited) ==
  [last EXCEPT
     !.attempt_count = @ + 1,
     !.log = Append(@, exited),
     !.pc = IF attempts_exhausted(last.attempt_count + 1) THEN "after_loop" ELSE "apt"]

\* lines 570-582 after a successful attempt
AptRanSuccessfully ==
  [last EXCEPT
     !.attempt_count = @ + 1,
     !.apt_ran_successfully_flag = TRUE,
     !.pc = "after_loop"]

\* lines 568-584: one pass through the loop, the command run with warn=True
AptUpdateAndUpgrade(exited) ==
  /\ last.op = "run_upgrade"
  /\ last.pc = "apt"
  /\ last' = IF exited = 0 THEN AptRanSuccessfully ELSE AptFailed(exited)
  /\ UNCHANGED <<heap, file, nCalls>>

\* lines 585-591
RaiseUnlessAptRan ==
  /\ last.op = "run_upgrade"
  /\ last.pc = "after_loop"
  /\ last' = IF ~last.apt_ran_successfully_flag
             THEN [last EXCEPT !.pc = "done", !.outcome = "RuntimeError"]
             ELSE [last EXCEPT !.pc = "commit"]
  /\ UNCHANGED <<heap, file, nCalls>>

\* line 592: docker commit container_id new_image_uri
DockerCommit(ok) ==
  /\ last.op = "run_upgrade"
  /\ last.pc = "commit"
  /\ last' = [CtxRun(ok, "rm") EXCEPT !.committed = ok]
  /\ UNCHANGED <<heap, file, nCalls>>

\* line 593: docker rm -f container_id
DockerRm(ok) ==
  /\ last.op = "run_upgrade"
  /\ last.pc = "rm"
  /\ last' = [CtxRun(ok, "push") EXCEPT !.removed = ok]
  /\ UNCHANGED <<heap, file, nCalls>>

\* line 594: docker push new_image_uri
DockerPush(ok) ==
  /\ last.op = "run_upgrade"
  /\ last.pc = "push"
  /\ last' = [[last EXCEPT !.pc = "done",
                           !.outcome = IF ok THEN "returned" ELSE "UnexpectedExit"]
                EXCEPT !.pushed = ok]
  /\ UNCHANGED <<heap, file, nCalls>>

NextUpgrade ==
  \/ \E ok \in BOOLEAN : DockerRun(ok)
  \/ \E exited \in {0} \cup FailedStatuses : AptUpdateAndUpgrade(exited)
  \/ RaiseUnlessAptRan
  \/ \E ok \in BOOLEAN : DockerCommit(ok)
  \/ \E ok \in BOOLEAN : DockerRm(ok)
  \/ \E ok \in BOOLEAN : DockerPush(ok)

SpecUpgrade == InitUpgrade /\ [][NextUpgrade]_vars

\* C27: the apt command runs at most 10 times and never again after it
\* succeeded; the image is committed and pushed only after a successful
\* attempt; after 10 failed attempts the function raises RuntimeError and
\* nothing is committed or pushed.
C27_AtMostTenAttempts ==
  /\ [](last.attempt_count <= 10)
  /\ [](last.attempt_count = Len(last.log) + (IF last.apt_ran_successfully_flag THEN 1 ELSE 0))
  /\ []((last.committed \/ last.pushed) => last.apt_ran_successfully_flag)
  /\ [](last.pushed => last.committed)
  /\ [](last.outcome = "RuntimeError" <=>
          (last.pc = "done" /\ ~last.apt_ran_successfully_flag /\ Len(last.log) = 10))
  /\ [](last.outcome = "RuntimeError" => ~last.committed /\ ~last.pushed)
  /\ []((Len(last.log) = 10 /\ last.pc \notin {"after_loop", "done"}) => FALSE)
  /\ [][last'.attempt_count /= last.attempt_count =>
          (~last.apt_ran_successfully_flag /\ last'.attempt_count = last.attempt_count + 1)]_vars

\* C27 witness: the tenth attempt succeeded after nine failed ones and the
\* image was committed and pushed
C27_Witness ==
  /\ last.op = "run_upgrade"
  /\ last.attempt_count = 10
  /\ Len(last.log) = 9
  /\ last.apt_ran_successfully_flag
  /\ last.committed
  /\ last.pushed
  /\ last.outcome = "returned"

\* ------------------------------------- further claims on the list algebra
\* (checked under Spec)

\* C28: every package key of every list maps to at least one record, so a
\* dict is non-empty exactly when the list holds a record.
C28_NoKeyWithoutRecord ==
  \A o \in Objects :
    /\ \A e \in Range(heap[o].vulnerability_list) : e.vulns /= <<>>
    /\ heap[o].vulnerability_list /= <<>> <=> Records(heap[o]) /= <<>>

\* C29: when A.__cmp__(B) is true, A - B and B - A are both None and
\* B.__cmp__(A) is true as well.
C29_EqualityAgreesWithDifference ==
  (last.op = "cmp" /\ last.flag) =>
    /\ Sub(last.A, last.B).kind = "none"
    /\ Sub(last.B, last.A).kind = "none"
    /\ Cmp(last.B, last.A)

\* ------------------------------------------------------ DockerImage.build
\* A seventh specification: one DockerImage of src/image.py is built and
\* then looked at by fetch_dlc_images_for_test_jobs of src/utils.py.  `last`
\* holds the image (to_build, context, to_push, build_status, log), the
\* position of build() and how it ended.  The docker daemon yields the lines
\* of the build stream one by one; each is a "stream", a "status", another
\* or an "error" line; `response` keeps the kind of each line appended.

MaxLines == 3   \* the longest build stream

LineKinds == {"stream", "status", "other", "error"}

\* DockerImage.__init__ (lines 29-56) with the arguments of the caller
BuildCall(to_build, context, to_push) ==
  [op |-> "build", pc |-> "build", to_build |-> to_build, context |-> context,
   context_removed |-> FALSE, to_push |-> to_push, build_status |-> "None",
   log |-> <<>>, response |-> <<>>, outcome |-> "running", handed |-> FALSE]

InitBuild ==
  /\ heap = <<>>
  /\ file = NoFile
  /\ \E to_build \in BOOLEAN, context \in {"None", "Context"}, to_push \in BOOLEAN :
       last = BuildCall(to_build, context, to_push)
  /\ nCalls = 0

\* build(), lines 96-108: an image that is not to be built returns NOT_BUILT
BuildStarts ==
  /\ last.op = "build"
  /\ last.pc = "build"
  /\ last' = IF ~last.to_build
             THEN [last EXCEPT !.log = <<"Not built">>, !.build_status = "NOT_BUILT",
                               !.pc = "returned", !.outcome = "returned"]
             ELSE [last EXCEPT !.pc = "docker_build"]
  /\ UNCHANGED <<heap, file, nCalls>>

\* docker_build, lines 142-151: the error line; self.context.remove() on an
\* image without context is an AttributeError, raised before anything is
\* appended
docker_build_error ==
  IF last.context = "None"
  THEN [last EXCEPT !.pc = "done", !.outcome = "AttributeError"]
  ELSE [last EXCEPT !.context_removed = TRUE,
                    !.response = Append(@, "error"),
                    !.log = Append(last.response, "error"),
                    !.build_status = "FAIL",
                    !.pc = "after_docker_build"]

\* docker_build, lines 131-158: one line of the build stream
DockerBuildLine(line) ==
  /\ last.op = "build"
  /\ last.pc = "docker_build"
  /\ Len(last.response) < MaxLines
  /\ last' = IF line = "error" THEN docker_build_error
             ELSE [last EXCEPT !.response = Append(@, line)]
  /\ UNCHANGED <<heap, file, nCalls>>

\* docker_build, lines 160-164: the stream ended without an error line
DockerBuildEnds ==
  /\ last.op = "build"
  /\ last.pc = "docker_build"
  /\ last' = [last EXCEPT !.log = last.response, !.build_status = "SUCCESS",
                          !.pc = "after_docker_build"]
  /\ UNCHANGED <<heap, file, nCalls>>

\* build(), lines 110-122 after docker_build returned: the context is
\* removed, a second time when docker_build removed it already, and the
\* removal of a removed context either returns or raises
AfterDockerBuild(removed_again) ==
  /\ last.op = "build"
  /\ last.pc = "after_docker_build"
  /\ last' = IF last.context = "Context" /\ last.context_removed /\ ~removed_again
             THEN [last EXCEPT !.pc = "done", !.outcome = "FileNotFoundError"]
             ELSE [last EXCEPT !.pc = "image_size_check",
                               !.context_removed = (last.context = "Context")]
  /\ UNCHANGED <<heap, file, nCalls>>

\* image_size_check, lines 172-178: the build_status it sets
image_size_check(build_status, exceeded) ==
  IF exceeded THEN "FAIL_IMAGE_SIZE_LIMIT" ELSE "SUCCESS"

\* build(), lines 125-128, with image_size_check (lines 167-182):
\* inspect_image raises when the daemon has no image of the tag; an image
\* of the tag is there after a build without error, and may be there from
\* an earlier build otherwise
ImageSizeCheck(image_exists, exceeded) ==
  /\ last.op = "build"
  /\ last.pc = "image_size_check"
  /\ last.build_status = "SUCCESS" => image_exists
  /\ last' = IF ~image_exists
             THEN [last EXCEPT !.pc = "done", !.outcome = "ImageNotFound"]
             ELSE [last EXCEPT
                     !.build_status = image_size_check(last.build_status, exceeded),
                     !.log = IF exceeded THEN <<"Image size baseline exceeded">> ELSE <<>>,
                     !.pc = "returned", !.outcome = "returned"]
  /\ UNCHANGED <<heap, file, nCalls>>

\* fetch_dlc_images_for_test_jobs, lines 128-157, for the image
FetchDlcImagesForTestJobs(build_enabled, is_test_promotion_enabled) ==
  /\ last.op = "build"
  /\ last.pc = "returned"
  /\ last' = [last EXCEPT
                !.pc = "done",
                !.handed = /\ is_test_promotion_enabled
                           /\ \/ last.build_status = "SUCCESS"
                              \/ (~build_enabled /\ last.build_status = "NOT_BUILT")]
  /\ UNCHANGED <<heap, file, nCalls>>

NextBuild ==
  \/ BuildStarts
  \/ \E line \in LineKinds : DockerBuildLine(line)
  \/ DockerBuildEnds
  \/ \E removed_again \in BOOLEAN : AfterDockerBuild(removed_again)
  \/ \E image_exists \in BOOLEAN, exceeded \in BOOLEAN : ImageSizeCheck(image_exists, exceeded)
  \/ \E build_enabled \in BOOLEAN, is_test_promotion_enabled \in BOOLEAN :
       FetchDlcImagesForTestJobs(build_enabled, is_test_promotion_enabled)

SpecBuild == InitBuild /\ [][NextBuild]_vars

\* the build stream contained an error line
ErrorReported == "error" \in Range(last.response)

====
